---- MODULE Spec2Model ----
(***************************************************************************)
(* A model of the fennec toolchain: the precedence-climbing expression     *)
(* parser (crates/parser/src/internal/expression.rs) and the per-file      *)
(* orchestration services (crates/service/src/{formatter,linter}/mod.rs).  *)
(*                                                                         *)
(* The parser is a function of the token stream and the stream cursor; it  *)
(* is written here as recursive operators that follow the Rust functions   *)
(* arm by arm.  A token is its kind (a string); the span of a token is its *)
(* index in the stream, so two nodes built from different tokens differ.   *)
(***************************************************************************)
EXTENDS Integers, Sequences, FiniteSets, TLC

VARIABLES
    tokens,        \* parser: the token stream handed to the parser
    precedence,    \* parser: the minimum precedence of the outermost call
    result,        \* parser: what the outermost call returned
    pc,            \* parser: "ready" before the call, "done" after it
    assignment,    \* parser: a call of create_assignment_expression and its result
    document,      \* formatter: what formatting the parsed expression gave
    reparsed       \* parser: what parsing the formatted expression again gave

parserVars == <<tokens, precedence, result, pc, assignment, document, reparsed>>

VARIABLES
    service,       \* which service runs: "none", "formatter" or "linter"
    manager,       \* SourceManager: source id -> its file
    analysis,      \* what parsing, building and linting a source yields
    settings,      \* linter.settings
    source_ids,    \* the source ids handed to process_sources
    handles,       \* the source ids whose task was spawned, in spawn order
    tasks,         \* source id -> the state of its task
    progress,      \* the progress bars
    feedback,      \* sources whose formatting was reported as skipped
    collector,     \* the loop over the handles: position, count, results
    run_result     \* what run returned

serviceVars == <<service, manager, analysis, settings, source_ids, handles, tasks,
                 progress, feedback, collector, run_result>>

VARIABLES
    program_source,    \* the source text format is first called on
    program_settings,  \* the FormatSettings of the format calls
    program_output,    \* the texts the successive format calls returned
    program_formatter  \* the Formatter each format call left behind

programVars == <<program_source, program_settings, program_output, program_formatter>>

-----------------------------------------------------------------------------
(* Bounds of the model.                                                    *)

\* Longest token stream drawn freely from FreeAlphabet.
MaxFree == 3

\* Longest chain of method calls in a token stream.
MaxCalls == 4

\* Number of sources the source manager holds.
MaxFiles == 2

\* Most issues the linter, and the semantics, report for one source.
MaxIssues == 1

-----------------------------------------------------------------------------
(* Tokens (fennec_token): kinds and their classification.                  *)

NoToken == "<none>"

AssignmentTokens ==
    {"=", "+=", "-=", "*=", "/=", "%=", "**=", "&=", "|=", "^=", "<<=", ">>=", "??=", ".="}

ArithmeticInfixTokens == {"+", "-", "*", "/", "%", "**"}

BitwiseInfixTokens == {"&", "|", "^", "<<", ">>"}

ComparisonTokens == {"==", "===", "!=", "!==", "<>", "<", ">", "<=", ">=", "<=>"}

LogicalTokens == {"&&", "||", "and", "or", "xor"}

MiscBinaryTokens == {"??", "?:", ".", "instanceof"}

\* The operators that build a node from a left and a right operand.
BinaryInfixTokens ==
    AssignmentTokens \cup ArithmeticInfixTokens \cup BitwiseInfixTokens
        \cup ComparisonTokens \cup LogicalTokens \cup MiscBinaryTokens

PostfixTokens == {"(", "[", "::", "->", "?->", "++", "--"}

UnaryPrefixTokens == {"!", "~", "@", "+", "-", "++", "--"}

is_infix(kind) == kind \in BinaryInfixTokens \cup {"?"}

is_postfix(kind) == kind \in PostfixTokens

is_literal(kind) == kind = "Literal"

is_unary_prefix(kind) == kind \in UnaryPrefixTokens

-----------------------------------------------------------------------------
(* Precedence (fennec_token): an ordered enum with an associativity per    *)
(* level.                                                                  *)

PrecedenceOrder ==
    << "Lowest", "Or", "And", "Assignment", "Ternary", "NullCoalesce",
       "LowLogicalOr", "LowLogicalXor", "LowLogicalAnd",
       "BitwiseOr", "BitwiseXor", "BitwiseAnd", "Equality", "Comparison",
       "Concat", "BitShift", "AddSub", "MulDivMod", "Instanceof", "Prefix",
       "Pow", "IncDec", "CallDim", "ObjectAccess" >>

Precedences == {PrecedenceOrder[i] : i \in 1..Len(PrecedenceOrder)}

\* The position of a level in the enum: the derived Ord of Precedence.
Rank(p) == CHOOSE i \in 1..Len(PrecedenceOrder) : PrecedenceOrder[i] = p

associativity(p) ==
    IF p \in {"MulDivMod", "AddSub", "BitShift", "Concat", "BitwiseAnd", "BitwiseXor",
              "BitwiseOr", "And", "Or", "LowLogicalAnd", "LowLogicalXor", "LowLogicalOr"}
    THEN "Left"
    ELSE IF p \in {"Pow", "NullCoalesce", "Assignment"} THEN "Right"
    ELSE "None"

\* Precedence::infix
infix(kind) ==
    CASE kind = "**" -> "Pow"
      [] kind = "instanceof" -> "Instanceof"
      [] kind \in {"*", "/", "%"} -> "MulDivMod"
      [] kind \in {"+", "-"} -> "AddSub"
      [] kind \in {"<<", ">>"} -> "BitShift"
      [] kind = "." -> "Concat"
      [] kind \in {"<", ">", "<=", ">="} -> "Comparison"
      [] kind \in {"==", "===", "!=", "!==", "<>", "<=>"} -> "Equality"
      [] kind = "&" -> "BitwiseAnd"
      [] kind = "^" -> "BitwiseXor"
      [] kind = "|" -> "BitwiseOr"
      [] kind = "&&" -> "And"
      [] kind = "||" -> "Or"
      [] kind = "??" -> "NullCoalesce"
      [] kind \in {"?", "?:"} -> "Ternary"
      [] kind \in AssignmentTokens -> "Assignment"
      [] kind = "and" -> "LowLogicalAnd"
      [] kind = "or" -> "LowLogicalOr"
      [] kind = "xor" -> "LowLogicalXor"

\* Precedence::postfix
postfix(kind) ==
    CASE kind \in {"++", "--"} -> "IncDec"
      [] kind \in {"(", "["} -> "CallDim"
      [] kind \in {"->", "?->", "::"} -> "ObjectAccess"

-----------------------------------------------------------------------------
(* AST (fennec_ast): a node is its variant, its operator, the spans of its *)
(* own tokens, and its children in source order.                           *)

Node(k, op, sp, kids) == [k |-> k, op |-> op, sp |-> sp, kids |-> kids]

NoExpression == Node("None", "", <<>>, <<>>)

\* BinaryOperator::is_comparison / is_logical
is_comparison(op) == op \in ComparisonTokens

is_logical(op) == op \in LogicalTokens

-----------------------------------------------------------------------------
(* Results: Result<Expression, ParseError> together with the cursor the    *)
(* stream is left at.                                                      *)

NoError == [kind |-> "none", token |-> NoToken, at |-> 0, expected |-> {}]

Ok(e, p) == [ok |-> TRUE, expr |-> e, pos |-> p, err |-> NoError]

Err(e, p) == [ok |-> FALSE, expr |-> NoExpression, pos |-> p, err |-> e]

\* utils::unexpected(stream, token, expected)
unexpected(toks, pos, expected) ==
    IF pos <= Len(toks)
    THEN [kind |-> "Unexpected", token |-> toks[pos], at |-> pos, expected |-> expected]
    ELSE [kind |-> "UnexpectedEndOfFile", token |-> NoToken, at |-> pos, expected |-> expected]

\* utils::maybe_peek_nth(stream, n).map(|t| t.kind)
maybe_peek_nth(toks, pos, n) == IF pos + n <= Len(toks) THEN toks[pos + n] ELSE NoToken

\* utils::maybe_peek(stream)
maybe_peek(toks, pos) == maybe_peek_nth(toks, pos, 0)

-----------------------------------------------------------------------------
(* Sub-parsers of other files of the parser crate, reduced to the token    *)
(* kinds of this model.                                                    *)

RECURSIVE parse_expression_with_precedence(_, _, _)
RECURSIVE climbing_loop(_, _, _, _)
RECURSIVE climbing_run(_, _, _, _, _)
RECURSIVE parse_lhs_expression(_, _)
RECURSIVE parse_postfix_expression(_, _, _, _)
RECURSIVE parse_infix_expression(_, _, _)
RECURSIVE parse_arguments(_, _, _, _)

\* parse_expression: the entry point, minimum precedence Lowest.
parse_expression(toks, pos) == parse_expression_with_precedence(toks, pos, "Lowest")

\* unary::parse_unary_prefix_operation: the operator, then its operand.
parse_unary_prefix_operation(toks, pos) ==
    LET operand == parse_expression_with_precedence(toks, pos + 1, "Prefix") IN
    IF ~operand.ok THEN operand
    ELSE Ok(Node("UnaryPrefixOperation", toks[pos], <<pos>>, <<operand.expr>>), operand.pos)

\* member::parse_classlike_constant_selector_or_variable
parse_classlike_constant_selector_or_variable(toks, pos) ==
    CASE maybe_peek(toks, pos) = "Identifier" ->
            Ok(Node("ClassLikeConstantSelector::Identifier", "", <<pos>>, <<>>), pos + 1)
      [] maybe_peek(toks, pos) = "$variable" ->
            Ok(Node("Variable", "", <<pos>>, <<>>), pos + 1)
      [] OTHER -> Err(unexpected(toks, pos, {"Identifier", "$variable"}), pos)

\* member::parse_classlike_memeber_selector
parse_classlike_memeber_selector(toks, pos) ==
    CASE maybe_peek(toks, pos) = "Identifier" ->
            Ok(Node("ClassLikeMemberSelector::Identifier", "", <<pos>>, <<>>), pos + 1)
      [] maybe_peek(toks, pos) = "$variable" ->
            Ok(Node("ClassLikeMemberSelector::Variable", "", <<pos>>, <<>>), pos + 1)
      [] OTHER -> Err(unexpected(toks, pos, {"Identifier", "$variable"}), pos)

\* argument::parse_argument_list, after its `(`: arguments separated by `,`,
\* each an optional `...` and an expression, up to the closing `)`.
parse_arguments(toks, pos, sp, args) ==
    IF pos > Len(toks) THEN Err(unexpected(toks, pos, {")"}), pos)
    ELSE IF toks[pos] = ")" THEN Ok(Node("ArgumentList", "", Append(sp, pos), args), pos + 1)
    ELSE
        LET ellipsis == toks[pos] = "..."
            value == parse_expression(toks, IF ellipsis THEN pos + 1 ELSE pos)
        IN  IF ~value.ok THEN value
            ELSE
                LET argument == Node("Argument::Positional",
                                     IF ellipsis THEN "..." ELSE "",
                                     IF ellipsis THEN <<pos>> ELSE <<>>,
                                     <<value.expr>>)
                IN  CASE maybe_peek(toks, value.pos) = "," ->
                            parse_arguments(toks, value.pos + 1, Append(sp, value.pos),
                                            Append(args, argument))
                      [] maybe_peek(toks, value.pos) = ")" ->
                            Ok(Node("ArgumentList", "", Append(sp, value.pos),
                                    Append(args, argument)), value.pos + 1)
                      [] OTHER -> Err(unexpected(toks, value.pos, {",", ")"}), value.pos)

\* argument::parse_argument_list
parse_argument_list(toks, pos) ==
    IF maybe_peek(toks, pos) # "(" THEN Err(unexpected(toks, pos, {"("}), pos)
    ELSE parse_arguments(toks, pos + 1, <<pos>>, <<>>)

-----------------------------------------------------------------------------
(* crates/parser/src/internal/expression.rs                                *)

\* is_closure_creation_lookahead looking one token ahead only.
is_closure_creation_lookahead_one_token(toks, pos) == maybe_peek_nth(toks, pos, 1) = "..."

\* The two-token lookahead past a `(` at pos: `...` then `)`.
is_closure_creation_lookahead(toks, pos) ==
    /\ maybe_peek_nth(toks, pos, 1) = "..."
    /\ maybe_peek_nth(toks, pos, 2) = ")"

\* `Precedence::CallDim > precedence`
call_is_allowed(min_precedence) == Rank("CallDim") > Rank(min_precedence)

\* The climbing loop's test of a postfix operator against the minimum.
postfix_stops(postfix_precedence, min_precedence) ==
    Rank(postfix_precedence) < Rank(min_precedence)

\* infix_stops without the associativity test of an equal level.
infix_stops_ignoring_associativity(infix_precedence, min_precedence) ==
    Rank(infix_precedence) < Rank(min_precedence)

\* The climbing loop's test of an infix operator against the minimum.
infix_stops(infix_precedence, min_precedence) ==
    \/ Rank(infix_precedence) < Rank(min_precedence)
    \/ /\ infix_precedence = min_precedence
       /\ associativity(infix_precedence) = "Left"

\* infix_rhs_precedence with the next-higher level for a left-associative operator.
infix_rhs_precedence_next_higher(kind) ==
    IF associativity(infix(kind)) = "Left"
    THEN PrecedenceOrder[Rank(infix(kind)) + 1]
    ELSE infix(kind)

\* The minimum precedence parse_infix_expression parses the right operand with.
infix_rhs_precedence(kind) ==
    CASE kind = "??" -> "NullCoalesce"
      [] kind = "?:" -> "Ternary"
      [] kind \in {"+", "-"} -> "AddSub"
      [] kind \in {"*", "/", "%"} -> "MulDivMod"
      [] kind = "**" -> "Pow"
      [] kind \in AssignmentTokens -> "Assignment"
      [] kind = "&" -> "BitwiseAnd"
      [] kind = "|" -> "BitwiseOr"
      [] kind = "^" -> "BitwiseXor"
      [] kind \in {"<<", ">>"} -> "BitShift"
      [] kind \in {"==", "===", "!=", "!==", "<>"} -> "Equality"
      [] kind \in {"<", ">", "<=", ">="} -> "Comparison"
      [] kind = "<=>" -> "Equality"
      [] kind = "&&" -> "And"
      [] kind = "||" -> "Or"
      [] kind = "and" -> "LowLogicalAnd"
      [] kind = "or" -> "LowLogicalOr"
      [] kind = "xor" -> "LowLogicalXor"
      [] kind = "." -> "Concat"
      [] kind = "instanceof" -> "Instanceof"

\* The node variant parse_infix_expression wraps lhs, operator and rhs into.
infix_node_kind(kind) ==
    CASE kind \in ArithmeticInfixTokens -> "ArithmeticOperation::Infix"
      [] kind \in BitwiseInfixTokens -> "BitwiseOperation::Infix"
      [] OTHER -> "BinaryOperation"

\* create_assignment_expression without the arm of a comparison or logical lhs.
create_assignment_expression_no_binary_arm(lhs, operator, rhs) ==
    LET assign(target) == Node("AssignmentOperation", operator.kind, <<operator.span>>,
                               <<target, rhs>>)
    IN  CASE lhs.k = "BitwiseOperation::Infix" ->
                Node("BitwiseOperation::Infix", lhs.op, lhs.sp,
                     <<lhs.kids[1], assign(lhs.kids[2])>>)
          [] lhs.k = "ArithmeticOperation::Infix" ->
                Node("ArithmeticOperation::Infix", lhs.op, lhs.sp,
                     <<lhs.kids[1], assign(lhs.kids[2])>>)
          [] OTHER -> assign(lhs)

\* create_assignment_expression rotating the assignment onto the left operand.
create_assignment_expression_onto_left_operand(lhs, operator, rhs) ==
    LET assign(target) == Node("AssignmentOperation", operator.kind, <<operator.span>>,
                               <<target, rhs>>)
    IN  CASE lhs.k = "BinaryOperation" /\ (is_comparison(lhs.op) \/ is_logical(lhs.op)) ->
                Node("BinaryOperation", lhs.op, lhs.sp, <<assign(lhs.kids[1]), lhs.kids[2]>>)
          [] lhs.k = "BitwiseOperation::Infix" ->
                Node("BitwiseOperation::Infix", lhs.op, lhs.sp,
                     <<assign(lhs.kids[1]), lhs.kids[2]>>)
          [] lhs.k = "ArithmeticOperation::Infix" ->
                Node("ArithmeticOperation::Infix", lhs.op, lhs.sp,
                     <<assign(lhs.kids[1]), lhs.kids[2]>>)
          [] OTHER -> assign(lhs)

create_assignment_expression(lhs, operator, rhs) ==
    LET assign(target) == Node("AssignmentOperation", operator.kind, <<operator.span>>,
                               <<target, rhs>>)
    IN  CASE lhs.k = "BinaryOperation" /\ (is_comparison(lhs.op) \/ is_logical(lhs.op)) ->
                Node("BinaryOperation", lhs.op, lhs.sp, <<lhs.kids[1], assign(lhs.kids[2])>>)
          [] lhs.k = "BitwiseOperation::Infix" ->
                Node("BitwiseOperation::Infix", lhs.op, lhs.sp,
                     <<lhs.kids[1], assign(lhs.kids[2])>>)
          [] lhs.k = "ArithmeticOperation::Infix" ->
                Node("ArithmeticOperation::Infix", lhs.op, lhs.sp,
                     <<lhs.kids[1], assign(lhs.kids[2])>>)
          [] OTHER -> assign(lhs)

\* parse_infix_expression, the arm of `?`.
infix_conditional_arm(toks, lhs, pos) ==
    IF maybe_peek_nth(toks, pos, 1) = ":" THEN
        LET else_ == parse_expression(toks, pos + 2) IN
        IF ~else_.ok THEN else_
        ELSE Ok(Node("Conditional", "short", <<pos, pos + 1>>, <<lhs, else_.expr>>), else_.pos)
    ELSE
        LET then == parse_expression(toks, pos + 1) IN
        IF ~then.ok THEN then
        ELSE IF maybe_peek(toks, then.pos) # ":"
        THEN Err(unexpected(toks, then.pos, {":"}), then.pos)
        ELSE
            LET else_ == parse_expression(toks, then.pos + 1) IN
            IF ~else_.ok THEN else_
            ELSE Ok(Node("Conditional", "full", <<pos, then.pos>>,
                         <<lhs, then.expr, else_.expr>>), else_.pos)

\* infix_binary_arm returning the left operand when the right operand fails.
infix_binary_arm_recovering(toks, lhs, pos) ==
    LET kind == toks[pos]
        rhs == parse_expression_with_precedence(toks, pos + 1, infix_rhs_precedence(kind))
    IN  IF ~rhs.ok THEN Ok(lhs, rhs.pos)
        ELSE IF kind \in AssignmentTokens
        THEN Ok(create_assignment_expression(lhs, [kind |-> kind, span |-> pos], rhs.expr),
                rhs.pos)
        ELSE Ok(Node(infix_node_kind(kind), kind, <<pos>>, <<lhs, rhs.expr>>), rhs.pos)

\* parse_infix_expression, the arms of the binary operators: the operator, the
\* right operand, the node.
infix_binary_arm(toks, lhs, pos) ==
    LET kind == toks[pos]
        rhs == parse_expression_with_precedence(toks, pos + 1, infix_rhs_precedence(kind))
    IN  IF ~rhs.ok THEN rhs
        ELSE IF kind \in AssignmentTokens
        THEN Ok(create_assignment_expression(lhs, [kind |-> kind, span |-> pos], rhs.expr),
                rhs.pos)
        ELSE Ok(Node(infix_node_kind(kind), kind, <<pos>>, <<lhs, rhs.expr>>), rhs.pos)

parse_infix_expression(toks, lhs, pos) ==
    IF toks[pos] = "?"
    THEN infix_conditional_arm(toks, lhs, pos)
    ELSE infix_binary_arm(toks, lhs, pos)

\* parse_postfix_expression, the arm of `(`.
postfix_call_arm(toks, lhs, pos) ==
    IF is_closure_creation_lookahead(toks, pos)
    THEN Ok(Node("ClosureCreation::Function", "", <<pos, pos + 1, pos + 2>>, <<lhs>>), pos + 3)
    ELSE
        LET arguments == parse_argument_list(toks, pos) IN
        IF ~arguments.ok THEN arguments
        ELSE Ok(Node("Call::Function", "", <<>>, <<lhs, arguments.expr>>), arguments.pos)

\* parse_postfix_expression, the arm of `[`.
postfix_index_arm(toks, lhs, pos) ==
    IF pos + 1 > Len(toks) THEN Err(unexpected(toks, pos + 1, {}), pos + 1)
    ELSE IF toks[pos + 1] = "]"
    THEN Ok(Node("ArrayAppend", "", <<pos, pos + 1>>, <<lhs>>), pos + 2)
    ELSE
        LET index == parse_expression(toks, pos + 1) IN
        IF ~index.ok THEN index
        ELSE IF maybe_peek(toks, index.pos) # "]"
        THEN Err(unexpected(toks, index.pos, {"]"}), index.pos)
        ELSE Ok(Node("ArrayAccess", "", <<pos, index.pos>>, <<lhs, index.expr>>),
                index.pos + 1)

\* parse_postfix_expression, the arm of `::`.
postfix_static_arm(toks, lhs, pos, min_precedence) ==
    LET selector == parse_classlike_constant_selector_or_variable(toks, pos + 1) IN
    IF ~selector.ok THEN selector
    ELSE IF selector.pos > Len(toks)
    THEN Err(unexpected(toks, selector.pos, {}), selector.pos)
    ELSE IF call_is_allowed(min_precedence) /\ toks[selector.pos] = "("
    THEN
        IF is_closure_creation_lookahead(toks, selector.pos)
        THEN Ok(Node("ClosureCreation::StaticMethod", "",
                     <<pos, selector.pos, selector.pos + 1, selector.pos + 2>>,
                     <<lhs, selector.expr>>), selector.pos + 3)
        ELSE
            LET arguments == parse_argument_list(toks, selector.pos) IN
            IF ~arguments.ok THEN arguments
            ELSE Ok(Node("Call::StaticMethod", "", <<pos>>,
                         <<lhs, selector.expr, arguments.expr>>), arguments.pos)
    ELSE IF selector.expr.k = "Variable"
    THEN Ok(Node("Access::StaticProperty", "", <<pos>>, <<lhs, selector.expr>>), selector.pos)
    ELSE Ok(Node("Access::ClassConstant", "", <<pos>>, <<lhs, selector.expr>>), selector.pos)

\* parse_postfix_expression, the arm of `->`.
postfix_arrow_arm(toks, lhs, pos, min_precedence) ==
    LET selector == parse_classlike_memeber_selector(toks, pos + 1) IN
    IF ~selector.ok THEN selector
    ELSE IF call_is_allowed(min_precedence) /\ maybe_peek(toks, selector.pos) = "("
    THEN
        IF is_closure_creation_lookahead(toks, selector.pos)
        THEN Ok(Node("ClosureCreation::Method", "",
                     <<pos, selector.pos, selector.pos + 1, selector.pos + 2>>,
                     <<lhs, selector.expr>>), selector.pos + 3)
        ELSE
            LET arguments == parse_argument_list(toks, selector.pos) IN
            IF ~arguments.ok THEN arguments
            ELSE Ok(Node("Call::Method", "", <<pos>>,
                         <<lhs, selector.expr, arguments.expr>>), arguments.pos)
    ELSE Ok(Node("Access::Property", "", <<pos>>, <<lhs, selector.expr>>), selector.pos)

\* postfix_nullsafe_arrow_arm with the lookahead of the `->` arm.
postfix_nullsafe_arrow_arm_with_lookahead(toks, lhs, pos, min_precedence) ==
    LET selector == parse_classlike_memeber_selector(toks, pos + 1) IN
    IF ~selector.ok THEN selector
    ELSE IF call_is_allowed(min_precedence) /\ maybe_peek(toks, selector.pos) = "("
    THEN
        IF is_closure_creation_lookahead(toks, selector.pos)
        THEN Ok(Node("ClosureCreation::Method", "",
                     <<pos, selector.pos, selector.pos + 1, selector.pos + 2>>,
                     <<lhs, selector.expr>>), selector.pos + 3)
        ELSE
            LET arguments == parse_argument_list(toks, selector.pos) IN
            IF ~arguments.ok THEN arguments
            ELSE Ok(Node("Call::NullSafeMethod", "", <<pos>>,
                         <<lhs, selector.expr, arguments.expr>>), arguments.pos)
    ELSE Ok(Node("Access::NullSafeProperty", "", <<pos>>, <<lhs, selector.expr>>),
            selector.pos)

\* parse_postfix_expression, the arm of `?->`.
postfix_nullsafe_arrow_arm(toks, lhs, pos, min_precedence) ==
    LET selector == parse_classlike_memeber_selector(toks, pos + 1) IN
    IF ~selector.ok THEN selector
    ELSE IF call_is_allowed(min_precedence) /\ maybe_peek(toks, selector.pos) = "("
    THEN
        LET arguments == parse_argument_list(toks, selector.pos) IN
        IF ~arguments.ok THEN arguments
        ELSE Ok(Node("Call::NullSafeMethod", "", <<pos>>,
                     <<lhs, selector.expr, arguments.expr>>), arguments.pos)
    ELSE Ok(Node("Access::NullSafeProperty", "", <<pos>>, <<lhs, selector.expr>>),
            selector.pos)

parse_postfix_expression(toks, lhs, pos, min_precedence) ==
    LET kind == toks[pos] IN
    CASE kind = "(" -> postfix_call_arm(toks, lhs, pos)
      [] kind = "[" -> postfix_index_arm(toks, lhs, pos)
      [] kind = "::" -> postfix_static_arm(toks, lhs, pos, min_precedence)
      [] kind = "->" -> postfix_arrow_arm(toks, lhs, pos, min_precedence)
      [] kind = "?->" -> postfix_nullsafe_arrow_arm(toks, lhs, pos, min_precedence)
      [] kind \in {"++", "--"} ->
            Ok(Node("ArithmeticOperation::Postfix", kind, <<pos>>, <<lhs>>), pos + 1)

parse_lhs_expression(toks, pos) ==
    IF pos > Len(toks) THEN Err(unexpected(toks, pos, {}), pos)
    ELSE
        LET kind == toks[pos] IN
        IF is_literal(kind) THEN Ok(Node("Literal", "", <<pos>>, <<>>), pos + 1)
        ELSE IF is_unary_prefix(kind) THEN parse_unary_prefix_operation(toks, pos)
        ELSE
            CASE kind = "static" -> Ok(Node("Static", "", <<pos>>, <<>>), pos + 1)
              [] kind = "self" -> Ok(Node("Self_", "", <<pos>>, <<>>), pos + 1)
              [] kind = "parent" -> Ok(Node("Parent", "", <<pos>>, <<>>), pos + 1)
              [] kind = "Identifier" -> Ok(Node("Identifier", "", <<pos>>, <<>>), pos + 1)
              [] kind = "(" ->
                    LET expression == parse_expression(toks, pos + 1) IN
                    IF ~expression.ok THEN expression
                    ELSE IF maybe_peek(toks, expression.pos) # ")"
                    THEN Err(unexpected(toks, expression.pos, {")"}), expression.pos)
                    ELSE Ok(Node("Parenthesized", "", <<pos, expression.pos>>,
                                 <<expression.expr>>), expression.pos + 1)
              [] kind = "$variable" -> Ok(Node("Variable", "", <<pos>>, <<>>), pos + 1)
              [] OTHER -> Err(unexpected(toks, pos, {}), pos)

\* The loop of parse_expression_with_precedence, one iteration per unfolding.
climbing_loop(toks, left, pos, min_precedence) ==
    LET next == maybe_peek(toks, pos) IN
    IF next = NoToken THEN Ok(left, pos)
    ELSE IF next \in {";", "?>"} THEN Ok(left, pos)
    ELSE IF is_postfix(next) THEN
        IF postfix_stops(postfix(next), min_precedence) THEN Ok(left, pos)
        ELSE
            LET r == parse_postfix_expression(toks, left, pos, min_precedence) IN
            IF ~r.ok THEN r ELSE climbing_loop(toks, r.expr, r.pos, min_precedence)
    ELSE IF is_infix(next) THEN
        IF infix_stops(infix(next), min_precedence) THEN Ok(left, pos)
        ELSE
            LET r == parse_infix_expression(toks, left, pos) IN
            IF ~r.ok THEN r ELSE climbing_loop(toks, r.expr, r.pos, min_precedence)
    ELSE Ok(left, pos)

climbing_iteration_that_never_breaks(toks, left, pos, min_precedence) ==
    LET next == maybe_peek(toks, pos) IN
    IF next = NoToken THEN [broke |-> TRUE, r |-> Ok(left, pos)]
    ELSE IF next \in {";", "?>"} THEN [broke |-> TRUE, r |-> Ok(left, pos)]
    ELSE IF is_postfix(next) THEN
        IF postfix_stops(postfix(next), min_precedence)
        THEN [broke |-> FALSE, r |-> Ok(left, pos)]
        ELSE [broke |-> FALSE,
              r |-> parse_postfix_expression(toks, left, pos, min_precedence)]
    ELSE IF is_infix(next) THEN
        IF infix_stops(infix(next), min_precedence)
        THEN [broke |-> FALSE, r |-> Ok(left, pos)]
        ELSE [broke |-> FALSE, r |-> parse_infix_expression(toks, left, pos)]
    ELSE [broke |-> TRUE, r |-> Ok(left, pos)]

\* One iteration of the loop of parse_expression_with_precedence: whether it
\* broke out of the loop, and the expression and the cursor it leaves, or the
\* error that `?` returns.
climbing_iteration(toks, left, pos, min_precedence) ==
    LET next == maybe_peek(toks, pos) IN
    IF next = NoToken THEN [broke |-> TRUE, r |-> Ok(left, pos)]
    ELSE IF next \in {";", "?>"} THEN [broke |-> TRUE, r |-> Ok(left, pos)]
    ELSE IF is_postfix(next) THEN
        IF postfix_stops(postfix(next), min_precedence)
        THEN [broke |-> TRUE, r |-> Ok(left, pos)]
        ELSE [broke |-> FALSE,
              r |-> parse_postfix_expression(toks, left, pos, min_precedence)]
    ELSE IF is_infix(next) THEN
        IF infix_stops(infix(next), min_precedence)
        THEN [broke |-> TRUE, r |-> Ok(left, pos)]
        ELSE [broke |-> FALSE, r |-> parse_infix_expression(toks, left, pos)]
    ELSE [broke |-> TRUE, r |-> Ok(left, pos)]

\* The loop of parse_expression_with_precedence run for at most `fuel`
\* iterations: the cursor after each iteration that went on (it did not break
\* and `?` did not return), what the loop returned, and whether it returned
\* within these iterations.
climbing_run(toks, left, pos, min_precedence, fuel) ==
    IF fuel = 0 THEN [cursors |-> <<>>, r |-> Ok(left, pos), finished |-> FALSE]
    ELSE
        LET iteration == climbing_iteration(toks, left, pos, min_precedence) IN
        IF iteration.broke \/ ~iteration.r.ok
        THEN [cursors |-> <<>>, r |-> iteration.r, finished |-> TRUE]
        ELSE
            LET rest == climbing_run(toks, iteration.r.expr, iteration.r.pos,
                                     min_precedence, fuel - 1)
            IN [cursors |-> <<iteration.r.pos>> \o rest.cursors,
                r |-> rest.r,
                finished |-> rest.finished]

parse_expression_with_precedence(toks, pos, min_precedence) ==
    LET left == parse_lhs_expression(toks, pos) IN
    IF ~left.ok THEN left ELSE climbing_loop(toks, left.expr, left.pos, min_precedence)

-----------------------------------------------------------------------------
(* The parser's inputs: token streams and the caller's minimum precedence. *)

RECURSIVE SeqsUpTo(_, _)
\* Every sequence over alphabet of length at most n.
SeqsUpTo(alphabet, n) ==
    IF n = 0 THEN {<<>>}
    ELSE LET shorter == SeqsUpTo(alphabet, n - 1) IN
         shorter \cup {Append(s, t) : s \in {x \in shorter : Len(x) = n - 1}, t \in alphabet}

\* `a op2 b op1 c` for every pair of binary infix operators.
PrecedenceStreams ==
    {<<"$variable", op2, "$variable", op1, "$variable">> :
        op2 \in BinaryInfixTokens, op1 \in BinaryInfixTokens}

\* One operator of each family, for the longer streams.
FamilyTokens == {"=", "==", "&&", "or", "+", "*", "&", ".", "??"}

ConditionalStreams ==
    {<<"$variable", "?", "$variable", ":", "$variable">>,
     <<"$variable", "?", ":", "$variable">>,
     <<"$variable", "?", "$variable">>,
     <<"$variable", "?", "$variable", ":">>}
    \cup {<<"$variable", op, "$variable", "?", "$variable", ":", "$variable">> :
            op \in FamilyTokens}
    \cup {<<"$variable", "?", "$variable", ":", "$variable", op, "$variable">> :
            op \in FamilyTokens}
    \cup {<<"$variable", "?", "$variable", op, "$variable", ":", "$variable">> :
            op \in FamilyTokens}

\* A primary, an optional member selection, an optional call or index, a tail.
PostfixPrefixes == {<<>>, <<"$variable", "+">>, <<"$variable", "**">>, <<"!">>}

PostfixHeads == {<<"$variable">>, <<"Identifier">>, <<"static">>}

PostfixMembers ==
    {<<>>, <<"->", "Identifier">>, <<"?->", "Identifier">>, <<"->", "$variable">>,
     <<"::", "Identifier">>, <<"::", "$variable">>, <<"::">>, <<"->", "(">>}

PostfixCalls ==
    {<<>>, <<"(", ")">>, <<"(", "...", ")">>, <<"(", "...", "$variable", ")">>,
     <<"(", "$variable", ")">>, <<"(", "$variable", ",", "...", "$variable", ")">>,
     <<"(", "...">>, <<"(", "...", ",", ")">>, <<"(", "$variable">>,
     <<"[", "]">>, <<"[", "$variable", "]">>, <<"[", "$variable">>, <<"++">>}

PostfixTails == {<<>>, <<";">>, <<"(", ")">>, <<"+", "$variable">>, <<"=", "$variable">>}

PostfixStreams ==
    {a \o h \o m \o c \o t :
        a \in PostfixPrefixes, h \in PostfixHeads, m \in PostfixMembers,
        c \in PostfixCalls, t \in PostfixTails}

FreeAlphabet ==
    {"$variable", "Literal", "(", ")", "*", "=", "==", "?", ":", "->", ";", "!"}

FreeStreams == SeqsUpTo(FreeAlphabet, MaxFree)

\* `a op2 b op1 c = d`: an assignment after two infix operators.
RotationStreams ==
    {<<"$variable", op2, "$variable", op1, "$variable", "=", "$variable">> :
        op2 \in FamilyTokens, op1 \in FamilyTokens}

RECURSIVE MethodCalls(_)
\* Every run of n method calls without arguments: `->m()`, `?->m()`, `::m()`.
MethodCalls(n) ==
    IF n = 0 THEN {<<>>}
    ELSE {calls \o <<arrow, "Identifier", "(", ")">> :
            calls \in MethodCalls(n - 1), arrow \in {"->", "?->", "::"}}

\* A variable and up to MaxCalls method calls on it.
ChainStreams ==
    {<<"$variable">> \o calls : calls \in UNION {MethodCalls(n) : n \in 1..MaxCalls}}

TokenStreams ==
    PrecedenceStreams \cup ConditionalStreams \cup PostfixStreams \cup FreeStreams
        \cup RotationStreams \cup ChainStreams

\* The minimum precedences a caller of parse_expression_with_precedence passes.
CallerPrecedences == Precedences

NotParsed == [ok |-> FALSE, expr |-> NoExpression, pos |-> 0, err |-> NoError]

\* The assignment operators and right operands handed to
\* create_assignment_expression after the stream's expression: the operator
\* takes the span after the stream, the right operand the spans after that.
AssignmentOperators == {"=", "??="}

AssignmentOperands(at) ==
    {Node("Variable", "", <<at>>, <<>>),
     Node("AssignmentOperation", "=", <<at + 1>>,
          <<Node("Variable", "", <<at>>, <<>>), Node("Literal", "", <<at + 2>>, <<>>)>>)}

NotAssigned ==
    [lhs |-> NoExpression, operator |-> [kind |-> NoToken, span |-> 0],
     rhs |-> NoExpression, expr |-> NoExpression]

-----------------------------------------------------------------------------
(* The formatter (crates/formatter): Expression::format and the format     *)
(* functions of the nodes under an expression.  A Document is reduced to   *)
(* the tokens it prints, in order; a call that reaches `unreachable!()`    *)
(* panics, and the panic ends the whole format call.                       *)

\* FormatSettings::method_chain_break_threshold
MaxThreshold == 3

FormatSettings == [method_chain_break_threshold : 1..MaxThreshold]

Document(text) == [panicked |-> FALSE, text |-> text]

\* unreachable!()
Unreachable == [panicked |-> TRUE, text |-> <<>>]

\* token!(f, span, "...") and static_str!("...")
token(kind) == Document(<<kind>>)

RECURSIVE group(_)
\* group!(...), array!(...), Document::Group(Group::new(vec![...])): the parts in
\* order.  The parts are built before the group is, so a part that panics
\* leaves no group.
group(parts) ==
    IF parts = <<>> THEN Document(<<>>)
    ELSE LET first == Head(parts)
             rest == group(Tail(parts))
         IN  IF first.panicked \/ rest.panicked THEN Unreachable
             ELSE Document(first.text \o rest.text)

\* wrap!(f, node, ...) for an expression the source wrote in parentheses
\* (parens::need_parens): the parentheses of the source are printed again.
wrap_in_parentheses(inner) == group(<<token("("), inner, token(")")>>)

\* call::collect_method_call_chain: the calls of a chain of `->`, `?->` and
\* `::` method calls, from the outermost call inwards along the object or
\* class; a function call, or anything that is no call, ends the chain.
RECURSIVE collect_method_call_chain(_)
collect_method_call_chain(e) ==
    IF e.k \in {"Call::Method", "Call::NullSafeMethod", "Call::StaticMethod"}
    THEN Append(collect_method_call_chain(e.kids[1]), e.sp[1])
    ELSE <<>>

\* The Call arm of Expression::format, with `>` for `>=`.
call_printer_above_threshold(e, format_settings) ==
    LET calls == collect_method_call_chain(e) IN
    IF calls # <<>>
    THEN IF Len(calls) > format_settings.method_chain_break_threshold
         THEN "print_method_call_chain"
         ELSE "Call::format"
    ELSE "Call::format"

\* The Call arm of Expression::format: which function prints the call.
call_printer(e, format_settings) ==
    LET calls == collect_method_call_chain(e) IN
    IF calls # <<>>
    THEN IF Len(calls) >= format_settings.method_chain_break_threshold
         THEN "print_method_call_chain"
         ELSE "Call::format"
    ELSE "Call::format"

\* The variants of Expression that Expression::format has an arm for, among
\* the variants the parser of this model builds.
FormatArms ==
    {"Literal", "ArithmeticOperation", "AssignmentOperation", "BitwiseOperation",
     "ArrayAccess", "ArrayAppend", "Variable", "Identifier", "Call", "Access",
     "ClosureCreation", "Parent", "Static", "Self_"}

\* The variant of Expression a node is: `Call::Method` is Expression::Call.
expression_variant(k) ==
    CASE k \in {"ArithmeticOperation::Infix", "ArithmeticOperation::Postfix"} ->
            "ArithmeticOperation"
      [] k = "BitwiseOperation::Infix" -> "BitwiseOperation"
      [] k \in {"Call::Function", "Call::Method", "Call::NullSafeMethod",
                "Call::StaticMethod"} -> "Call"
      [] k \in {"Access::Property", "Access::NullSafeProperty", "Access::StaticProperty",
                "Access::ClassConstant"} -> "Access"
      [] k \in {"ClosureCreation::Function", "ClosureCreation::Method",
                "ClosureCreation::StaticMethod"} -> "ClosureCreation"
      [] OTHER -> k

RECURSIVE format_expression(_)
RECURSIVE format_arguments(_, _)

\* ClassLikeMemberSelector::format, ClassLikeConstantSelector::format
format_selector(selector) ==
    CASE selector.k = "Variable" -> token("$variable")
      [] selector.k = "ClassLikeMemberSelector::Variable" -> token("$variable")
      [] OTHER -> token("Identifier")

\* PositionalArgument::format for each argument, the separator between two.
format_arguments(arguments, i) ==
    IF i > Len(arguments) THEN <<>>
    ELSE LET argument == arguments[i]
             value == format_expression(argument.kids[1])
             printed == IF argument.op = "..." THEN group(<<token("..."), value>>)
                        ELSE group(<<value>>)
         IN  (IF i > 1 THEN <<token(",")>> ELSE <<>>) \o <<printed>>
                \o format_arguments(arguments, i + 1)

\* ArgumentList::format: the delimiters around the separated arguments.
format_argument_list(list) ==
    group(<<token("(")>> \o format_arguments(list.kids, 1) \o <<token(")")>>)

\* The format functions of the variants behind the arms of Expression::format.
format_variant(e) ==
    LET child(i) == format_expression(e.kids[i])
        ellipsis == <<token("("), token("..."), token(")")>>
    IN  CASE e.k = "Literal" -> token("Literal")
          [] e.k = "Variable" -> token("$variable")
          [] e.k = "Identifier" -> token("Identifier")
          [] e.k = "Static" -> token("static")
          [] e.k = "Self_" -> token("self")
          [] e.k = "Parent" -> token("parent")
          [] e.k \in {"ArithmeticOperation::Infix", "BitwiseOperation::Infix",
                      "AssignmentOperation"} ->
                group(<<child(1), token(e.op), child(2)>>)
          [] e.k = "ArithmeticOperation::Postfix" -> group(<<child(1), token(e.op)>>)
          [] e.k = "ArrayAccess" -> group(<<child(1), token("["), child(2), token("]")>>)
          [] e.k = "ArrayAppend" -> group(<<child(1), token("["), token("]")>>)
          [] e.k = "Call::Function" -> group(<<child(1), format_argument_list(e.kids[2])>>)
          [] e.k = "Call::Method" ->
                group(<<child(1), token("->"), format_selector(e.kids[2]),
                        format_argument_list(e.kids[3])>>)
          [] e.k = "Call::NullSafeMethod" ->
                group(<<child(1), token("?->"), format_selector(e.kids[2]),
                        format_argument_list(e.kids[3])>>)
          [] e.k = "Call::StaticMethod" ->
                group(<<child(1), token("::"), format_selector(e.kids[2]),
                        format_argument_list(e.kids[3])>>)
          [] e.k \in {"Access::Property"} ->
                group(<<child(1), token("->"), format_selector(e.kids[2])>>)
          [] e.k = "Access::NullSafeProperty" ->
                group(<<child(1), token("?->"), format_selector(e.kids[2])>>)
          [] e.k \in {"Access::StaticProperty", "Access::ClassConstant"} ->
                group(<<child(1), token("::"), format_selector(e.kids[2])>>)
          [] e.k = "ClosureCreation::Function" -> group(<<child(1)>> \o ellipsis)
          [] e.k = "ClosureCreation::Method" ->
                group(<<child(1), token("->"), format_selector(e.kids[2])>> \o ellipsis)
          [] e.k = "ClosureCreation::StaticMethod" ->
                group(<<child(1), token("::"), format_selector(e.kids[2])>> \o ellipsis)

\* Expression::format
format_expression(e) ==
    IF e.k = "Parenthesized" THEN wrap_in_parentheses(format_expression(e.kids[1]))
    ELSE IF expression_variant(e.k) \in FormatArms THEN format_variant(e)
    ELSE Unreachable

NotFormatted ==
    [panicked |-> FALSE, text |-> <<>>, printer |-> "none",
     settings |-> [method_chain_break_threshold |-> 1]]

-----------------------------------------------------------------------------
(* The formatter on a whole program: format (lib.rs), Program::format and  *)
(* the tags (format/mod.rs), print_statement_sequence (format/statement.rs) *)
(* and the scanning helpers of Formatter (lib.rs).  A source text is a     *)
(* sequence of characters; an opening tag, a closing tag and a statement   *)
(* with its terminator each stand for one character, so that an offset is  *)
(* an index into the sequence, counted from 0 as in the code.              *)

\* Longest source text handed to format.
MaxText == 5

\* `<?php`, `?>`, a statement with its terminator, `__halt_compiler();`, an
\* empty statement, a space, a line terminator, a character of inline content.
Characters == {"<?php", "?>", "s", "__halt_compiler", ";", " ", "\n", "h"}

SourceTexts == SeqsUpTo(Characters, MaxText)

ProgramSettings == [include_closing_tag : BOOLEAN]

\* Option<usize>::None
None == -1

\* A statement: its variant, its span, and for Inline its content.
Statement(kind, start, end, value) ==
    [kind |-> kind, start |-> start, end |-> end, value |-> value]

RECURSIVE parse_statements(_, _, _, _)
\* The lexer and the statement parser.  Outside the tags everything up to the
\* next opening tag is one Inline statement; inside, white space separates the
\* statements and a closing tag ends the script part.  `offset` is the offset
\* of the next character, `inline` the offset the pending inline content
\* began at (None inside the tags).
parse_statements(text, offset, inline, statements) ==
    IF offset = Len(text) THEN
        [ok |-> TRUE,
         statements |->
            IF inline = None \/ inline = offset THEN statements
            ELSE Append(statements,
                        Statement("Inline", inline, offset,
                                  SubSeq(text, inline + 1, offset)))]
    ELSE
        LET c == text[offset + 1] IN
        IF inline # None THEN
            IF c = "<?php"
            THEN parse_statements(text, offset + 1, None,
                    (IF inline = offset THEN statements
                     ELSE Append(statements,
                                 Statement("Inline", inline, offset,
                                           SubSeq(text, inline + 1, offset))))
                        \o <<Statement("OpeningTag", offset, offset + 1, <<>>)>>)
            ELSE parse_statements(text, offset + 1, inline, statements)
        ELSE
            CASE c \in {" ", "\n"} -> parse_statements(text, offset + 1, None, statements)
              [] c = "s" ->
                    parse_statements(text, offset + 1, None,
                        Append(statements, Statement("Expression", offset, offset + 1, <<>>)))
              [] c = "__halt_compiler" ->
                    parse_statements(text, offset + 1, None,
                        Append(statements, Statement("HaltCompiler", offset, offset + 1, <<>>)))
              [] c = ";" ->
                    parse_statements(text, offset + 1, None,
                        Append(statements, Statement("Noop", offset, offset + 1, <<>>)))
              [] c = "?>" ->
                    parse_statements(text, offset + 1, offset + 1,
                        Append(statements, Statement("ClosingTag", offset, offset + 1, <<>>)))
              [] OTHER -> [ok |-> FALSE, statements |-> <<>>]

\* The parser on a source text: the Program, or a parse error.
parse_program(text) == parse_statements(text, 0, 0, <<>>)

is_line_terminator(c) == c = "\n"

RECURSIVE skip(_, _, _)
\* Formatter::skip with backwards = false; f is the set of characters skipped.
skip(source_text, start_index, f) ==
    IF start_index = None THEN None
    ELSE IF start_index >= Len(source_text) THEN None
    ELSE IF source_text[start_index + 1] \notin f THEN start_index
    ELSE skip(source_text, start_index + 1, f)

skip_to_line_end(source_text, start_index) == skip(source_text, start_index, {" ", ";"})

skip_spaces(source_text, start_index) == skip(source_text, start_index, {" "})

skip_spaces_and_new_lines(source_text, start_index) ==
    skip(source_text, start_index, {" ", "\n"})

skip_inline_comment(source_text, start_index) == start_index

\* No character of this model begins a comment: the `?` on the first character
\* gives None at the end of the text, every other position comes back.
skip_trailing_comment(source_text, start_index) ==
    IF start_index = None THEN None
    ELSE IF start_index >= Len(source_text) THEN None
    ELSE start_index

\* Formatter::skip_newline with backwards = false
skip_newline(source_text, start_index) ==
    IF start_index = None THEN None
    ELSE IF start_index >= Len(source_text) THEN None
    ELSE IF is_line_terminator(source_text[start_index + 1]) THEN start_index + 1
    ELSE start_index

\* Formatter::has_newline with backwards = false
has_newline(source_text, start_index) ==
    IF start_index = Len(source_text) THEN FALSE
    ELSE LET idx == skip_spaces(source_text, start_index)
             idx2 == skip_newline(source_text, idx)
         IN  idx # idx2

RECURSIVE skip_to_the_line_end_loop(_, _, _)
\* The `while idx != old_idx` loop of is_next_line_empty_after_index.
skip_to_the_line_end_loop(source_text, old_idx, idx) ==
    IF idx = old_idx THEN idx
    ELSE skip_to_the_line_end_loop(source_text, idx,
            skip_spaces(source_text,
                skip_inline_comment(source_text, skip_to_line_end(source_text, idx))))

is_next_line_empty_after_index(source_text, start_index) ==
    LET idx == skip_to_the_line_end_loop(source_text, None, start_index)
        after == skip_newline(source_text, skip_trailing_comment(source_text, idx))
    IN  after # None /\ has_newline(source_text, after)

\* Formatter::is_next_line_empty(span)
is_next_line_empty(source_text, statement) ==
    is_next_line_empty_after_index(source_text, statement.end)

\* Document::Line(Line::hardline()), printed: the Printer ends the line.
hardline == <<"\n">>

\* Formatter::new: the flags a format call starts with.
NewFormatter(format_settings) ==
    [settings |-> format_settings, scripting_mode |-> FALSE, parts |-> <<>>,
     should_include_new_line |-> TRUE, pushed |-> <<>>]

format_closing_tag_always_printed(f, source_text, statement) ==
    [f EXCEPT !.scripting_mode = FALSE, !.parts = @ \o <<"?>">>]

\* ClosingTag::format
format_closing_tag(f, source_text, statement) ==
    LET last_index == statement.end IN
    IF skip_spaces_and_new_lines(source_text, last_index) = None
    THEN IF ~f.settings.include_closing_tag
         THEN [f EXCEPT !.scripting_mode = TRUE]
         ELSE [f EXCEPT !.scripting_mode = FALSE, !.parts = @ \o <<"?>">>]
    ELSE [f EXCEPT !.scripting_mode = FALSE, !.parts = @ \o <<"?>">>]

\* Statement::format: the text of the statement is added to the parts and the
\* scripting mode is set by the tags and by inline content.
format_statement(f, source_text, statement) ==
    CASE statement.kind = "OpeningTag" ->
            [f EXCEPT !.scripting_mode = TRUE, !.parts = @ \o <<"<?php">>]
      [] statement.kind = "ClosingTag" -> format_closing_tag(f, source_text, statement)
      [] statement.kind = "Inline" ->
            [f EXCEPT !.scripting_mode = FALSE, !.parts = @ \o statement.value]
      [] statement.kind = "Expression" -> [f EXCEPT !.parts = @ \o <<"s">>]
      [] statement.kind = "HaltCompiler" ->
            [f EXCEPT !.scripting_mode = FALSE, !.parts = @ \o <<"__halt_compiler">>]
      [] statement.kind = "Noop" -> f

\* stmts.iter().rposition(|stmt| !matches!(stmt, Statement::Noop(_))), from 1;
\* 0 when every statement is a Noop.
last_non_noop_index(stmts) ==
    LET found == {i \in 1..Len(stmts) : stmts[i].kind # "Noop"} IN
    IF found = {} THEN 0 ELSE CHOOSE i \in found : \A j \in found : j <= i

hardlines_after_every_statement(source_text, stmts, i, should_include_new_line) ==
    IF should_include_new_line /\ last_non_noop_index(stmts) # 0
    THEN hardline \o (IF is_next_line_empty(source_text, stmts[i]) THEN hardline ELSE <<>>)
    ELSE <<>>

\* The hardlines print_statement_sequence pushes after statement i.
hardlines_after(source_text, stmts, i, should_include_new_line) ==
    IF should_include_new_line /\ last_non_noop_index(stmts) # 0
            /\ i # last_non_noop_index(stmts)
    THEN hardline \o (IF is_next_line_empty(source_text, stmts[i]) THEN hardline ELSE <<>>)
    ELSE <<>>

RECURSIVE print_statement_sequence_never_switched_on(_, _, _, _)
print_statement_sequence_never_switched_on(f, source_text, stmts, i) ==
    IF i > Len(stmts) THEN f
    ELSE IF stmts[i].kind = "Noop"
    THEN print_statement_sequence_never_switched_on(f, source_text, stmts, i + 1)
    ELSE
        LET include == CASE stmts[i].kind = "ClosingTag" -> FALSE
                         [] OTHER -> f.should_include_new_line
            printed == format_statement(f, source_text, stmts[i])
        IN  print_statement_sequence_never_switched_on(
                [printed EXCEPT !.should_include_new_line = include,
                                !.parts = @ \o hardlines_after(source_text, stmts, i, include),
                                !.pushed =
                                    Append(@, [index |-> i,
                                               text |-> SubSeq(printed.parts, Len(f.parts) + 1,
                                                               Len(printed.parts)),
                                               hardlines |-> hardlines_after(source_text, stmts,
                                                                             i, include),
                                               scripting_mode |-> printed.scripting_mode])],
                source_text, stmts, i + 1)

RECURSIVE print_statement_sequence(_, _, _, _)
\* print_statement_sequence, from statement i on.  `pushed` keeps, for every
\* statement that was formatted, what the iteration pushed onto the parts: the
\* text of the statement and the hardlines after it.
print_statement_sequence(f, source_text, stmts, i) ==
    IF i > Len(stmts) THEN f
    ELSE IF stmts[i].kind = "Noop" THEN print_statement_sequence(f, source_text, stmts, i + 1)
    ELSE
        LET include == CASE stmts[i].kind = "ClosingTag" -> FALSE
                         [] stmts[i].kind = "OpeningTag" -> TRUE
                         [] OTHER -> f.should_include_new_line
            printed == format_statement(f, source_text, stmts[i])
        IN  print_statement_sequence(
                [printed EXCEPT !.should_include_new_line = include,
                                !.parts = @ \o hardlines_after(source_text, stmts, i, include),
                                !.pushed =
                                    Append(@, [index |-> i,
                                               text |-> SubSeq(printed.parts, Len(f.parts) + 1,
                                                               Len(printed.parts)),
                                               hardlines |-> hardlines_after(source_text, stmts,
                                                                             i, include),
                                               scripting_mode |-> printed.scripting_mode])],
                source_text, stmts, i + 1)

\* block::print_block_body
print_block_body(f, source_text, stmts) ==
    IF \E i \in 1..Len(stmts) : stmts[i].kind # "Noop"
    THEN print_statement_sequence(f, source_text, stmts, 1)
    ELSE f

\* Program::format, and the Printer on its Document: the text of the parts.
format_program(f, source_text, program) ==
    LET body == print_block_body(f, source_text, program.statements) IN
    body.parts
        \o (IF body.scripting_mode
            THEN hardline
                    \o (IF body.settings.include_closing_tag
                        THEN hardline \o <<"?>">> \o hardline
                        ELSE <<>>)
            ELSE <<>>)

\* format(settings, interner, source, program)
format_source(format_settings, source_text, program) ==
    format_program(NewFormatter(format_settings), source_text, program)

\* No format call made on a program.
ProgramIdle ==
    /\ program_source = <<>>
    /\ program_settings = [include_closing_tag |-> FALSE]
    /\ program_output = <<>>
    /\ program_formatter = <<>>

------------------------------------------------------------------------------
(* The assignment layout (crates/formatter/src/format/assignment.rs).  An  *)
(* expression is its variant, its operator, the length of its name, the    *)
(* comment attached to its span, whether a logical or coalesce expression  *)
(* is to be inlined, its operand expressions and its argument values.      *)

VARIABLES
    argument_call,   \* layout: a call of is_lone_short_argument, its inputs
    argument_short,  \* layout: what that call returned
    layout_call,     \* layout: a call of choose_layout, its inputs
    layout           \* layout: the Layout that call returned

layoutVars == <<argument_call, argument_short, layout_call, layout>>

\* Largest settings.print_width and longest name of a lone argument.
MaxPrintWidth == 120
MaxName == 31

LayoutExpression(k, operator, name, comment, kids, arguments) ==
    [k |-> k, operator |-> operator, name |-> name, comment |-> comment,
     inline |-> FALSE, attributes |-> 0, kids |-> kids, arguments |-> arguments]

\* The formatter with its settings and its stack of nodes, outermost first.
FormatterAt(format_settings, stack) == [settings |-> format_settings, stack |-> stack]

\* An expression without operands: a variable, an identifier, a literal...
Leaf(k, name, comment) == LayoutExpression(k, "", name, comment, <<>>, <<>>)

\* UnaryPrefixOperation { operator, operand }
UnaryPrefixOperation(operator, operand, comment) ==
    LayoutExpression("UnaryPrefixOperation", operator, 0, comment, <<operand>>, <<>>)

\* f.has_comment(span, CommentFlags::all())
has_comment(e) == e.comment # "none"

\* f.has_leading_own_line_comment(span)
has_leading_own_line_comment(e) == e.comment = "leading own line"

\* UnaryPrefixOperator::is_cast
is_cast(operator) == operator \in {"(int)", "(string)", "(bool)", "(array)"}

\* LONE_SHORT_ARGUMENT_THRESHOLD_RATE = 0.25, as the quotient 1 / 4.
LONE_SHORT_ARGUMENT_THRESHOLD_RATE == 4

\* (print_width as f32 * LONE_SHORT_ARGUMENT_THRESHOLD_RATE).ceil() as usize
lone_short_argument_threshold(print_width) ==
    (print_width + LONE_SHORT_ARGUMENT_THRESHOLD_RATE - 1) \div LONE_SHORT_ARGUMENT_THRESHOLD_RATE

RECURSIVE is_lone_short_argument_below_threshold(_, _)
is_lone_short_argument_below_threshold(f, argument_value) ==
    IF has_comment(argument_value) THEN FALSE
    ELSE LET threshold == lone_short_argument_threshold(f.settings.print_width) IN
         CASE argument_value.k \in {"Static", "Self_", "Parent"} -> TRUE
           [] argument_value.k \in {"Variable::Direct", "Identifier::Local"} ->
                argument_value.name < threshold
           [] argument_value.k = "UnaryPrefixOperation" /\ ~is_cast(argument_value.operator) ->
                is_lone_short_argument_below_threshold(f, argument_value.kids[1])
           [] OTHER -> FALSE

\* is_lone_short_argument(f, argument_value)
RECURSIVE is_lone_short_argument(_, _)
is_lone_short_argument(f, argument_value) ==
    IF has_comment(argument_value) THEN FALSE
    ELSE LET threshold == lone_short_argument_threshold(f.settings.print_width) IN
         CASE argument_value.k \in {"Static", "Self_", "Parent"} -> TRUE
           [] argument_value.k \in {"Variable::Direct", "Identifier::Local"} ->
                argument_value.name <= threshold
           [] argument_value.k = "UnaryPrefixOperation" /\ ~is_cast(argument_value.operator) ->
                is_lone_short_argument(f, argument_value.kids[1])
           [] OTHER -> FALSE

\* is_lone_short_argument_list(f, argument_list)
is_lone_short_argument_list(f, argument_list) ==
    IF argument_list # <<>>
    THEN IF Len(argument_list) = 1
         THEN is_lone_short_argument(f, argument_list[1])
         ELSE FALSE
    ELSE TRUE

\* Expression::is_binary
is_binary(e) == e.k = "BinaryOperation"

\* Expression::is_string_literal
is_string_literal(e) == e.k = "Literal::String"

\* should_inline_logical_or_coalesce_expression(expression)
should_inline_logical_or_coalesce_expression(e) == e.inline

\* is_assignment(expression)
is_assignment(e) == e.k = "AssignmentOperation"

\* Document::can_break
can_break(lhs) == lhs.can_break

\* Formatter::parent_node
parent_node(f) == f.stack[Len(f.stack) - 1]

\* Formatter::grandparent_node, "None" for Option::None
grandparent_node(f) ==
    IF Len(f.stack) > 2 THEN f.stack[Len(f.stack) - 2] ELSE "None"

\* The variants of Call, Access, Variable and Identifier.
CallVariants == {"Call::Function", "Call::Method", "Call::NullSafeMethod", "Call::StaticMethod"}
AccessVariants == {"Access::Property", "Access::NullSafeProperty", "Access::StaticProperty",
                   "Access::ClassConstant"}
VariableVariants == {"Variable::Direct", "Variable::Indirect"}
IdentifierVariants == {"Identifier::Local", "Identifier::Qualified"}

\* The while loop of is_poorly_breakable_member_or_call_chain, from node on.
RECURSIVE poorly_breakable_loop(_, _, _)
poorly_breakable_loop(node, is_chain_expression, call_argument_lists) ==
    IF node.k \in CallVariants
    THEN poorly_breakable_loop(node.kids[1], TRUE, Append(call_argument_lists, node.arguments))
    ELSE IF node.k \in AccessVariants
    THEN poorly_breakable_loop(node.kids[1], TRUE, call_argument_lists)
    ELSE [is_chain_expression |-> is_chain_expression,
          is_identifier_or_variable |->
                node.k \in IdentifierVariants \cup VariableVariants \cup {"Static", "Self_", "Parent"},
          call_argument_lists |-> call_argument_lists]

is_poorly_breakable_member_or_call_chain_never(f, rhs_expression) == FALSE

\* is_poorly_breakable_member_or_call_chain(f, rhs_expression)
is_poorly_breakable_member_or_call_chain(f, rhs_expression) ==
    LET walked == poorly_breakable_loop(rhs_expression, FALSE, <<>>) IN
    IF ~walked.is_chain_expression \/ ~walked.is_identifier_or_variable THEN FALSE
    ELSE \A i \in 1..Len(walked.call_argument_lists) :
            is_lone_short_argument_list(f, walked.call_argument_lists[i])

\* The loop of should_break_after_operator that steps into the operands of
\* unary prefix operations.
RECURSIVE unary_operand_loop(_)
unary_operand_loop(current_expression) ==
    IF current_expression.k = "UnaryPrefixOperation"
    THEN unary_operand_loop(current_expression.kids[1])
    ELSE current_expression

\* should_break_after_operator(f, rhs_expression, has_short_key)
should_break_after_operator(f, rhs_expression, has_short_key) ==
    IF is_binary(rhs_expression) /\ ~should_inline_logical_or_coalesce_expression(rhs_expression)
    THEN TRUE
    ELSE IF rhs_expression.k = "BinaryOperation" /\ rhs_expression.operator = "?:"
    THEN LET condition == rhs_expression.kids[1] IN
         is_binary(condition) /\ ~should_inline_logical_or_coalesce_expression(condition)
    ELSE IF rhs_expression.k = "Conditional"
    THEN LET condition == rhs_expression.kids[1] IN
         is_binary(condition) /\ ~should_inline_logical_or_coalesce_expression(condition)
    ELSE IF rhs_expression.k = "AnonymousClass" /\ rhs_expression.attributes > 0
    THEN TRUE
    ELSE IF has_short_key
    THEN FALSE
    ELSE LET current_expression == unary_operand_loop(rhs_expression) IN
         \/ is_string_literal(current_expression)
         \/ is_poorly_breakable_member_or_call_chain(f, rhs_expression)

\* is_complex_destructuring(assignment_like_node)
is_complex_destructuring(assignment_like_node) ==
    IF assignment_like_node.kind = "AssignmentOperation"
    THEN IF assignment_like_node.lhs.k \in {"Array", "List", "LegacyArray"}
         THEN LET elements == assignment_like_node.lhs.kids IN
              /\ Len(elements) > 2
              /\ \E i \in 1..Len(elements) : elements[i].k = "ArrayElement::KeyValue"
         ELSE FALSE
    ELSE FALSE

\* is_arrow_function_variable_declarator(assignment_like_node)
is_arrow_function_variable_declarator(assignment_like_node) ==
    IF assignment_like_node.kind = "AssignmentOperation"
    THEN /\ assignment_like_node.lhs.k \in VariableVariants
         /\ assignment_like_node.rhs.k = "ArrowFunction"
    ELSE FALSE

MIN_OVERLAP_FOR_BREAK == 3

\* The items whose name is the left-hand side.
NamedItems == {"ClassLikeConstantItem", "ConstantItem", "EnumCaseBackedItem",
               "PropertyConcreteItem"}

\* is_property_like_with_short_key(f, assignment_like_node)
is_property_like_with_short_key(f, assignment_like_node) ==
    LET width ==
            CASE assignment_like_node.kind \in NamedItems -> assignment_like_node.name
              [] assignment_like_node.kind = "KeyValueArrayElement" ->
                    IF assignment_like_node.key.k
                            \in {"Variable::Direct", "Identifier::Local", "Literal::String"}
                    THEN assignment_like_node.key.name
                    ELSE None
              [] OTHER -> None
    IN  IF width = None THEN FALSE
        ELSE width < f.settings.tab_width + MIN_OVERLAP_FOR_BREAK

choose_layout_without_grandparent(f, lhs, assignment_like_node, rhs_expression) ==
    LET is_tail == ~is_assignment(rhs_expression)
        should_use_chain_formatting ==
            /\ assignment_like_node.kind = "AssignmentOperation"
            /\ parent_node(f) = "AssignmentOperation"
        can_break_left_doc == can_break(lhs)
        has_short_key == is_property_like_with_short_key(f, assignment_like_node)
    IN  IF should_use_chain_formatting
        THEN IF ~is_tail THEN "Chain"
             ELSE IF rhs_expression.k = "ArrowFunction"
                        /\ rhs_expression.kids[1].k = "ArrowFunction"
             THEN "ChainTailArrowChain"
             ELSE "ChainTail"
        ELSE IF ~is_tail \/ has_leading_own_line_comment(rhs_expression)
        THEN "BreakAfterOperator"
        ELSE IF rhs_expression.k \in {"Construct::Require", "Construct::RequireOnce",
                                      "Construct::Include", "Construct::IncludeOnce"}
        THEN "NeverBreakAfterOperator"
        ELSE IF \/ is_complex_destructuring(assignment_like_node)
                \/ is_arrow_function_variable_declarator(assignment_like_node)
                        /\ can_break_left_doc
        THEN "BreakLhs"
        ELSE IF should_break_after_operator(f, rhs_expression, has_short_key)
        THEN "BreakAfterOperator"
        ELSE IF /\ ~can_break_left_doc
                /\ \/ has_short_key
                   \/ rhs_expression.k \in {"Literal::String", "Literal::Integer",
                                            "CompositeString", "AnonymousClass"}
        THEN "NeverBreakAfterOperator"
        ELSE "Fluid"

\* choose_layout(f, lhs, assignment_like_node, rhs_expression)
choose_layout(f, lhs, assignment_like_node, rhs_expression) ==
    LET is_tail == ~is_assignment(rhs_expression)
        should_use_chain_formatting ==
            /\ assignment_like_node.kind = "AssignmentOperation"
            /\ parent_node(f) = "AssignmentOperation"
            /\ (~is_tail \/ grandparent_node(f) # "ExpressionStatement")
        can_break_left_doc == can_break(lhs)
        has_short_key == is_property_like_with_short_key(f, assignment_like_node)
    IN  IF should_use_chain_formatting
        THEN IF ~is_tail THEN "Chain"
             ELSE IF rhs_expression.k = "ArrowFunction"
                        /\ rhs_expression.kids[1].k = "ArrowFunction"
             THEN "ChainTailArrowChain"
             ELSE "ChainTail"
        ELSE IF ~is_tail \/ has_leading_own_line_comment(rhs_expression)
        THEN "BreakAfterOperator"
        ELSE IF rhs_expression.k \in {"Construct::Require", "Construct::RequireOnce",
                                      "Construct::Include", "Construct::IncludeOnce"}
        THEN "NeverBreakAfterOperator"
        ELSE IF \/ is_complex_destructuring(assignment_like_node)
                \/ is_arrow_function_variable_declarator(assignment_like_node)
                        /\ can_break_left_doc
        THEN "BreakLhs"
        ELSE IF should_break_after_operator(f, rhs_expression, has_short_key)
        THEN "BreakAfterOperator"
        ELSE IF /\ ~can_break_left_doc
                /\ \/ has_short_key
                   \/ rhs_expression.k \in {"Literal::String", "Literal::Integer",
                                            "CompositeString", "AnonymousClass"}
        THEN "NeverBreakAfterOperator"
        ELSE "Fluid"

\* The variants whose name is looked up, and those that have none.
NamedVariants == {"Variable::Direct", "Identifier::Local"}
UnnamedVariants == {"Variable::Indirect", "Identifier::Qualified", "Static", "Self_",
                    "Parent", "Literal::Integer"}

\* The argument values is_lone_short_argument is called on.
PlainArguments ==
    {Leaf(k, name, "none") : k \in NamedVariants, name \in 1..MaxName}
    \cup {Leaf(k, 0, "none") : k \in UnnamedVariants}

ArgumentValues ==
    LET commented(e) == {[e EXCEPT !.comment = c] : c \in {"none", "trailing"}} IN
    UNION {commented(e) : e \in PlainArguments}
    \cup {UnaryPrefixOperation(operator, operand, "none") :
            operator \in {"!", "(int)"}, operand \in PlainArguments}

\* Largest settings.tab_width, longest name of a property-like node, most
\* elements of a destructuring pattern, longest name of a chain's argument.
MaxTabWidth == 2
MaxKeyWidth == 5
MaxElements == 3
MaxChainName == 3

\* The settings choose_layout is called under.
LayoutSettings == [tab_width : 1..MaxTabWidth, print_width : {4, 8}]

\* A direct variable with a name of n characters.
DirectVariable(n) == Leaf("Variable::Direct", n, "none")

\* Call::{Function, Method, NullSafeMethod, StaticMethod} { callee, arguments }
Call(variant, callee, arguments) ==
    LayoutExpression(variant, "", 0, "none", <<callee>>, arguments)

\* Access::{Property, NullSafeProperty, StaticProperty, ClassConstant} { object }
Access(variant, object) == LayoutExpression(variant, "", 0, "none", <<object>>, <<>>)

\* BinaryOperation { lhs, operator, rhs }, with what
\* should_inline_logical_or_coalesce_expression answers on it.
BinaryOperation(operator, lhs, inline) ==
    [LayoutExpression("BinaryOperation", operator, 0, "none", <<lhs, DirectVariable(1)>>, <<>>)
        EXCEPT !.inline = inline]

\* The argument lists of the calls of a chain.
ShortArgumentLists == {<<>>, <<DirectVariable(MaxChainName)>>}
ChainArgumentLists ==
    {<<>>, <<DirectVariable(1), DirectVariable(1)>>,
     <<[DirectVariable(1) EXCEPT !.comment = "trailing"]>>}
    \cup {<<DirectVariable(n)>> : n \in 1..MaxChainName}

\* A member access or a call on a root.
ChainsOn(root, access, call, argument_lists) ==
    {Access(access, root)} \cup {Call(call, root, arguments) : arguments \in argument_lists}

\* The call and member chains: one link on each root, two links on a variable.
Chains ==
    LET on_variable == ChainsOn(DirectVariable(1), "Access::Property", "Call::Method",
                                ChainArgumentLists)
    IN  on_variable
        \cup ChainsOn(Leaf("Identifier::Local", 1, "none"), "Access::ClassConstant",
                      "Call::Function", ShortArgumentLists)
        \cup UNION {ChainsOn(Leaf(root, 0, "none"), "Access::StaticProperty",
                             "Call::StaticMethod", ShortArgumentLists) :
                        root \in {"Static", "Self_", "Parent"}}
        \cup ChainsOn(Leaf("Literal::Integer", 0, "none"), "Access::Property", "Call::Method",
                      ShortArgumentLists)
        \cup UNION {ChainsOn(inner, "Access::NullSafeProperty", "Call::NullSafeMethod",
                             ShortArgumentLists) :
                        inner \in ChainsOn(DirectVariable(1), "Access::Property", "Call::Method",
                                           ShortArgumentLists)}

\* The right-hand sides that are no chain.
OtherExpressions ==
    LET variable == DirectVariable(1)
        plain(k, kids) == LayoutExpression(k, "", 0, "none", kids, <<>>)
        conditions == {variable, BinaryOperation("+", variable, FALSE),
                       BinaryOperation("??", variable, TRUE)}
    IN  {variable, Leaf("Literal::String", 1, "none"), Leaf("Literal::Integer", 0, "none"),
         plain("CompositeString", <<>>), plain("AssignmentOperation", <<variable, variable>>),
         plain("ArrowFunction", <<variable>>),
         plain("ArrowFunction", <<plain("ArrowFunction", <<variable>>)>>),
         plain("AnonymousClass", <<>>), [plain("AnonymousClass", <<>>) EXCEPT !.attributes = 1],
         BinaryOperation("+", variable, FALSE), BinaryOperation("??", variable, TRUE),
         BinaryOperation("?:", variable, FALSE),
         UnaryPrefixOperation("!", Leaf("Literal::String", 1, "none"), "none"),
         UnaryPrefixOperation("!", variable, "none"),
         UnaryPrefixOperation("!", Call("Call::Method", variable, <<>>), "none")}
        \cup {plain(k, <<variable>>) :
                k \in {"Construct::Require", "Construct::RequireOnce", "Construct::Include",
                       "Construct::IncludeOnce", "Construct::Isset"}}
        \cup {BinaryOperation("?:", condition, TRUE) : condition \in conditions}
        \cup {plain("Conditional", <<condition, variable, variable>>) : condition \in conditions}

\* The right-hand sides choose_layout is called on, with or without a comment
\* on a line of its own before them.
RhsExpressions ==
    {[e EXCEPT !.comment = c] : e \in Chains \cup OtherExpressions,
                                c \in {"none", "leading own line"}}

\* An element of an array or list: ArrayElement::{KeyValue, Value}.
RECURSIVE ArrayElements(_, _)
ArrayElements(n, key_value) ==
    IF n = 0 THEN <<>>
    ELSE <<Leaf(IF key_value THEN "ArrayElement::KeyValue" ELSE "ArrayElement::Value",
                0, "none")>>
         \o ArrayElements(n - 1, FALSE)

\* The left-hand sides of an assignment operation.
LhsExpressions ==
    {DirectVariable(1), Access("Access::Property", DirectVariable(1))}
    \cup {LayoutExpression(k, "", 0, "none", ArrayElements(n, key_value), <<>>) :
            k \in {"Array", "List", "LegacyArray"}, n \in 2..MaxElements, key_value \in BOOLEAN}

\* The keys of a key-value array element.
KeyExpressions ==
    {Leaf(k, n, "none") : k \in {"Variable::Direct", "Identifier::Local", "Literal::String"},
                          n \in (MaxKeyWidth - 1)..MaxKeyWidth}
    \cup {Leaf("Variable::Indirect", 0, "none")}

\* No expression: the lhs or key of a node that has none.
NoLayoutExpression == Leaf("None", 0, "none")

\* AssignmentLikeNode: the assignment-like nodes with rhs as their right-hand side.
AssignmentLikeNodes(rhs) ==
    {[kind |-> "AssignmentOperation", lhs |-> lhs, key |-> NoLayoutExpression, name |-> 0,
      rhs |-> rhs] : lhs \in LhsExpressions}
    \cup {[kind |-> kind, lhs |-> NoLayoutExpression, key |-> NoLayoutExpression, name |-> n,
           rhs |-> rhs] : kind \in NamedItems, n \in (MaxKeyWidth - 1)..MaxKeyWidth}
    \cup {[kind |-> "KeyValueArrayElement", lhs |-> NoLayoutExpression, key |-> key, name |-> 0,
           rhs |-> rhs] : key \in KeyExpressions}

\* The nodes around the assignment-like node on the formatter's stack: its
\* parent, or its grandparent and its parent.
Ancestors ==
    LET kinds == {"AssignmentOperation", "ExpressionStatement"} IN
    {<<parent>> : parent \in kinds}
    \cup {<<grandparent, parent>> : grandparent \in kinds, parent \in kinds}

\* The calls of choose_layout.
LayoutCalls ==
    UNION {[pending : {TRUE}, settings : LayoutSettings, ancestors : Ancestors,
            lhs : [can_break : BOOLEAN], node : AssignmentLikeNodes(rhs)] :
                rhs \in RhsExpressions}

\* The settings is_lone_short_argument is called under.
ArgumentSettings == [print_width : 1..MaxPrintWidth]

\* No call of is_lone_short_argument or choose_layout made.
NoCall == [pending |-> FALSE]

LayoutIdle ==
    /\ argument_call = NoCall
    /\ argument_short = FALSE
    /\ layout_call = NoCall
    /\ layout = "none"

------------------------------------------------------------------------------
(* The lint command: the issues of a run, reported and turned into an exit *)
(* code.                                                                   *)

VARIABLES
    command,       \* lint command: the LintCommand executed
    lint_run,      \* lint command: what LintService::run returned to it
    execution      \* lint command: how far execute got, what it reported and returned

commandVars == <<command, lint_run, execution>>

\* The most issues a run of the lint service collects.
MaxCollected == 3

\* Level, in the order of its declaration: the order its comparison derives.
Levels == <<"Note", "Help", "Warning", "Error">>

\* The position of a level among the levels.
level_ordinal(level) == CHOOSE i \in 1..Len(Levels) : Levels[i] = level

\* level >= other
level_ge(level, other) == level_ordinal(level) >= level_ordinal(other)

\* Option::None of IssueCollection::get_highest_level.
NoLevel == "None"

RECURSIVE get_highest_level(_)
\* IssueCollection::get_highest_level: the greatest level among the issues.
get_highest_level(issues) ==
    IF issues = <<>> THEN NoLevel
    ELSE LET highest == get_highest_level(Tail(issues)) IN
         IF highest = NoLevel THEN Head(issues).level
         ELSE IF level_ge(highest, Head(issues).level) THEN highest
         ELSE Head(issues).level

\* IssueCollection::only_fixable: the issues that carry a suggestion.
only_fixable(issues) == SelectSeq(issues, LAMBDA issue : issue.fixable)

\* execute deciding on the issues it reports.
execute_deciding_on_the_reported_issues(lint_command, issues) ==
    LET shown == IF lint_command.only_fixable THEN only_fixable(issues) ELSE issues
        highest == get_highest_level(shown)
        issues_contain_errors ==
            IF highest = NoLevel THEN FALSE ELSE level_ge(highest, "Error")
    IN [reported |-> shown, exit_code |-> IF issues_contain_errors THEN 1 ELSE 0]

\* execute(command, configuration), from the issues of the run on.
execute(lint_command, issues) ==
    LET highest == get_highest_level(issues)
        issues_contain_errors ==
            IF highest = NoLevel THEN FALSE ELSE level_ge(highest, "Error")
    IN [reported |-> IF lint_command.only_fixable THEN only_fixable(issues) ELSE issues,
        exit_code |-> IF issues_contain_errors THEN 1 ELSE 0]

\* The issues a run collects: each has a level and carries a suggestion or not.
CollectedIssues ==
    [level : {Levels[i] : i \in 1..Len(Levels)}, fixable : BOOLEAN]

\* What LintService::run returns: Ok of the issues, or a SourceError.
LintRuns ==
    {[ok |-> TRUE, issues |-> issues] : issues \in SeqsUpTo(CollectedIssues, MaxCollected)}
    \cup {[ok |-> FALSE, issues |-> <<>>]}

NotExecuted == [pc |-> "ready", reported |-> <<>>, exit_code |-> 0]

\* No lint command run.
CommandIdle ==
    /\ command = [only_fixable |-> FALSE]
    /\ lint_run = [ok |-> TRUE, issues |-> <<>>]
    /\ execution = [NotExecuted EXCEPT !.pc = "idle"]

------------------------------------------------------------------------------
(* Cast operators: the type name printed between the parentheses.          *)

VARIABLES
    cast_settings,  \* casts: the settings of the formatter
    cast_operator,  \* casts: the CastOperator formatted
    cast_document   \* casts: the text its format returned

castVars == <<cast_settings, cast_operator, cast_document>>

LowercaseLetters ==
    <<"a", "b", "c", "d", "e", "f", "g", "i", "j", "l", "n", "o", "r", "s", "t", "u", "y">>

UppercaseLetters ==
    <<"A", "B", "C", "D", "E", "F", "G", "I", "J", "L", "N", "O", "R", "S", "T", "U", "Y">>

\* str::to_lowercase
to_lowercase(text) ==
    [i \in 1..Len(text) |->
        IF \E j \in 1..Len(UppercaseLetters) : UppercaseLetters[j] = text[i]
        THEN LowercaseLetters[CHOOSE j \in 1..Len(UppercaseLetters) :
                                    UppercaseLetters[j] = text[i]]
        ELSE text[i]]

\* str::to_uppercase
to_uppercase(text) ==
    [i \in 1..Len(text) |->
        IF \E j \in 1..Len(LowercaseLetters) : LowercaseLetters[j] = text[i]
        THEN UppercaseLetters[CHOOSE j \in 1..Len(LowercaseLetters) :
                                    LowercaseLetters[j] = text[i]]
        ELSE text[i]]

\* The type names of the casts, as the string literals of the code spell them.
TypeName ==
    [array |-> <<"a", "r", "r", "a", "y">>,
     bool |-> <<"b", "o", "o", "l">>,
     boolean |-> <<"b", "o", "o", "l", "e", "a", "n">>,
     double |-> <<"d", "o", "u", "b", "l", "e">>,
     real |-> <<"r", "e", "a", "l">>,
     float |-> <<"f", "l", "o", "a", "t">>,
     int |-> <<"i", "n", "t">>,
     integer |-> <<"i", "n", "t", "e", "g", "e", "r">>,
     object |-> <<"o", "b", "j", "e", "c", "t">>,
     unset |-> <<"u", "n", "s", "e", "t">>,
     string |-> <<"s", "t", "r", "i", "n", "g">>,
     binary |-> <<"b", "i", "n", "a", "r", "y">>]

\* The closure `op` of CastOperator::format: the name between parentheses, in
\* the case of the keywords.
cast_op(format_settings, n) ==
    IF format_settings.keyword_case = "Lowercase"
    THEN <<"(">> \o to_lowercase(n) \o <<")">>
    ELSE <<"(">> \o to_uppercase(n) \o <<")">>

\* BoolCastOperator, IntCastOperator, FloatCastOperator, StringCastOperator:
\* the name each preference selects.
PreferredName(preference) ==
    CASE preference = "Bool" -> TypeName.bool
      [] preference = "Boolean" -> TypeName.boolean
      [] preference = "Int" -> TypeName.int
      [] preference = "Integer" -> TypeName.integer
      [] preference = "Float" -> TypeName.float
      [] preference = "Double" -> TypeName.double
      [] preference = "Real" -> TypeName.real
      [] preference = "String" -> TypeName.string
      [] preference = "Binary" -> TypeName.binary

\* CastOperator::format
format_cast_operator(format_settings, operator) ==
    LET as_is == format_settings.leave_casts_as_is
        s == format_settings
    IN CASE operator.kind = "Array" -> cast_op(s, TypeName.array)
         [] operator.kind = "Bool" ->
                IF as_is THEN cast_op(s, TypeName.bool) ELSE cast_op(s, PreferredName(s.bool_cast))
         [] operator.kind = "Boolean" ->
                IF as_is THEN cast_op(s, TypeName.boolean) ELSE cast_op(s, PreferredName(s.bool_cast))
         [] operator.kind = "Double" ->
                IF as_is THEN cast_op(s, TypeName.float) ELSE cast_op(s, PreferredName(s.float_cast))
         [] operator.kind = "Real" ->
                IF as_is THEN cast_op(s, TypeName.real) ELSE cast_op(s, PreferredName(s.float_cast))
         [] operator.kind = "Float" ->
                IF as_is THEN cast_op(s, TypeName.float) ELSE cast_op(s, PreferredName(s.float_cast))
         [] operator.kind = "Int" ->
                IF as_is THEN cast_op(s, TypeName.int) ELSE cast_op(s, PreferredName(s.int_cast))
         [] operator.kind = "Integer" ->
                IF as_is THEN cast_op(s, TypeName.integer) ELSE cast_op(s, PreferredName(s.int_cast))
         [] operator.kind = "Object" -> cast_op(s, TypeName.object)
         [] operator.kind = "Unset" -> cast_op(s, TypeName.unset)
         [] operator.kind = "String" ->
                IF as_is THEN cast_op(s, TypeName.string) ELSE cast_op(s, PreferredName(s.string_cast))
         [] operator.kind = "Binary" ->
                IF as_is THEN cast_op(s, TypeName.binary) ELSE cast_op(s, PreferredName(s.string_cast))

\* The settings CastOperator::format reads.
CastSettings ==
    [keyword_case : {"Lowercase", "Uppercase"}, leave_casts_as_is : BOOLEAN,
     bool_cast : {"Bool", "Boolean"}, int_cast : {"Int", "Integer"},
     float_cast : {"Float", "Double", "Real"}, string_cast : {"String", "Binary"}]

\* CastOperator: one variant per type name, holding the name as the source
\* spells it, in small or in capital letters.
CastOperators ==
    LET variant(kind, name) ==
            {[kind |-> kind, value |-> name], [kind |-> kind, value |-> to_uppercase(name)]}
    IN variant("Array", TypeName.array) \cup variant("Bool", TypeName.bool)
       \cup variant("Boolean", TypeName.boolean) \cup variant("Double", TypeName.double)
       \cup variant("Real", TypeName.real) \cup variant("Float", TypeName.float)
       \cup variant("Int", TypeName.int) \cup variant("Integer", TypeName.integer)
       \cup variant("Object", TypeName.object) \cup variant("Unset", TypeName.unset)
       \cup variant("String", TypeName.string) \cup variant("Binary", TypeName.binary)

NoCastOperator == [kind |-> "None", value |-> <<>>]

\* No cast formatted.
CastIdle ==
    /\ cast_settings = [keyword_case |-> "Lowercase", leave_casts_as_is |-> FALSE,
                        bool_cast |-> "Bool", int_cast |-> "Int",
                        float_cast |-> "Float", string_cast |-> "String"]
    /\ cast_operator = NoCastOperator
    /\ cast_document = <<>>

------------------------------------------------------------------------------
(* Type hints and the kinds the reflector builds from them.                *)

VARIABLES
    hint,           \* reflector: the Hint reflected
    context,        \* reflector: the Context it is reflected in
    reflection      \* reflector: the TypeReflection reflect_hint returned

kindVars == <<hint, context, reflection>>

\* The most nodes a hint has.
MaxHintSize == 6

\* A Hint: its variant, the identifier of Hint::Identifier, its sub-hints.
Hint(k, identifier, kids) == [k |-> k, identifier |-> identifier, kids |-> kids]

\* A TypeKind: its variant, the name of Identifier, Static, Self_ and Parent,
\* the members of Union and Intersection.
TypeKind(k, name, kinds) == [k |-> k, name |-> name, kinds |-> kinds]

\* The variants of Hint that build_kind maps to the variant of the same name.
KeywordHints ==
    {"Null", "True", "False", "Array", "Callable", "Void", "Never", "Float", "Bool",
     "Integer", "String", "Object", "Mixed", "Iterable"}

\* Context::get_scope: the identifier of the class-like the hint is in.
get_scope(reflection_context) == reflection_context.scope

NoScope == ""

\* build_kind that pushes what the left operand gave, a union as a whole.
RECURSIVE build_kind_pushing_the_left_kind(_, _)
build_kind_pushing_the_left_kind(type_hint, reflection_context) ==
    LET build(h) == build_kind_pushing_the_left_kind(h, reflection_context)
        operands(variant) ==
            LET left == build(type_hint.kids[1])
                right == build(type_hint.kids[2])
            IN <<left>> \o (IF right.k = variant THEN right.kinds ELSE <<right>>)
        scoped(variant) ==
            IF get_scope(reflection_context) # NoScope
            THEN TypeKind(variant, get_scope(reflection_context), <<>>)
            ELSE TypeKind("Invalid" \o variant, "", <<>>)
    IN CASE type_hint.k = "Identifier" ->
                TypeKind("Identifier", reflection_context.names[type_hint.identifier], <<>>)
         [] type_hint.k = "Parenthesized" -> build(type_hint.kids[1])
         [] type_hint.k = "Nullable" ->
                LET kind == build(type_hint.kids[1]) IN
                IF kind.k = "Union"
                THEN TypeKind("Union", "", <<TypeKind("Null", "", <<>>)>> \o kind.kinds)
                ELSE TypeKind("Union", "", <<TypeKind("Null", "", <<>>), kind>>)
         [] type_hint.k = "Union" -> TypeKind("Union", "", operands("Union"))
         [] type_hint.k = "Intersection" ->
                TypeKind("Intersection", "", operands("Intersection"))
         [] type_hint.k \in KeywordHints -> TypeKind(type_hint.k, "", <<>>)
         [] type_hint.k = "Static" -> scoped("Static")
         [] type_hint.k = "Self_" -> scoped("Self")
         [] type_hint.k = "Parent" -> scoped("Parent")

RECURSIVE build_kind(_, _)
\* build_kind(hint, context)
build_kind(type_hint, reflection_context) ==
    LET build(h) == build_kind(h, reflection_context)
        \* kinds after the two matches of a Union or an Intersection arm
        operands(variant) ==
            LET left == build(type_hint.kids[1])
                right == build(type_hint.kids[2])
            IN (IF left.k = variant THEN left.kinds ELSE <<left>>)
               \o (IF right.k = variant THEN right.kinds ELSE <<right>>)
        scoped(variant) ==
            IF get_scope(reflection_context) # NoScope
            THEN TypeKind(variant, get_scope(reflection_context), <<>>)
            ELSE TypeKind("Invalid" \o variant, "", <<>>)
    IN CASE type_hint.k = "Identifier" ->
                TypeKind("Identifier", reflection_context.names[type_hint.identifier], <<>>)
         [] type_hint.k = "Parenthesized" -> build(type_hint.kids[1])
         [] type_hint.k = "Nullable" ->
                LET kind == build(type_hint.kids[1]) IN
                IF kind.k = "Union"
                THEN TypeKind("Union", "", <<TypeKind("Null", "", <<>>)>> \o kind.kinds)
                ELSE TypeKind("Union", "", <<TypeKind("Null", "", <<>>), kind>>)
         [] type_hint.k = "Union" -> TypeKind("Union", "", operands("Union"))
         [] type_hint.k = "Intersection" ->
                TypeKind("Intersection", "", operands("Intersection"))
         [] type_hint.k \in KeywordHints -> TypeKind(type_hint.k, "", <<>>)
         [] type_hint.k = "Static" -> scoped("Static")
         [] type_hint.k = "Self_" -> scoped("Self")
         [] type_hint.k = "Parent" -> scoped("Parent")

\* reflect_hint(hint, context)
reflect_hint(type_hint, reflection_context) ==
    [kind |-> build_kind(type_hint, reflection_context), inferred |-> FALSE]

\* The hints without sub-hints the model draws from.
LeafHints ==
    {Hint("Identifier", identifier, <<>>) : identifier \in {"A", "B"}}
    \cup {Hint(k, "", <<>>) : k \in {"Null", "Static"}}

RECURSIVE HintsOfSize(_)
\* The hints of n nodes.
HintsOfSize(n) ==
    IF n = 1 THEN LeafHints
    ELSE LET inner == HintsOfSize(n - 1)
             binary(m) ==
                LET left == HintsOfSize(m)
                    right == HintsOfSize(n - 1 - m)
                IN {Hint(k, "", <<l, r>>) : k \in {"Union", "Intersection"},
                                            l \in left, r \in right}
         IN {Hint(k, "", <<h>>) : k \in {"Parenthesized", "Nullable"}, h \in inner}
            \cup UNION {binary(m) : m \in 1..(n - 2)}

\* The hints reflected: `type_hint` is a hint of up to MaxHintSize nodes.
Hints(type_hint) ==
    \/ type_hint \in LeafHints
    \/ \E n \in 2..MaxHintSize :
            \/ \E k \in {"Parenthesized", "Nullable"}, h \in HintsOfSize(n - 1) :
                    type_hint = Hint(k, "", <<h>>)
            \/ \E k \in {"Union", "Intersection"}, m \in 1..(n - 2) :
                    \E l \in HintsOfSize(m), r \in HintsOfSize(n - 1 - m) :
                        type_hint = Hint(k, "", <<l, r>>)

\* The contexts: the resolved names, and the scope or none.
Contexts ==
    [names : {[A |-> "App\\A", B |-> "App\\B"]}, scope : {NoScope, "App\\C"}]

NoHint == Hint("None", "", <<>>)

NotReflected == [kind |-> TypeKind("None", "", <<>>), inferred |-> FALSE]

\* No hint reflected.
KindIdle ==
    /\ hint = NoHint
    /\ context = [names |-> [A |-> "App\\A", B |-> "App\\B"], scope |-> NoScope]
    /\ reflection = NotReflected

------------------------------------------------------------------------------
(* Splitting the text of a heredoc or nowdoc into lines.                   *)

VARIABLES
    slice,          \* split_lines: the text split
    split           \* split_lines: whether it was called, the lines it returned

linesVars == <<slice, split>>

\* The most bytes of a text split.
MaxSlice == 4

\* The bytes of the texts split: two letters and the two line terminators.
SliceBytes == {"a", "b", "\n", "\r"}

\* slice[start..end], on byte offsets counted from zero.
slice_range(bytes, start, end) == SubSeq(bytes, start + 1, end)

RECURSIVE split_lines_loop(_, _, _, _)
\* The `while i < bytes.len()` loop of split_lines and what follows it.
split_lines_loop(bytes, lines, start, i) ==
    IF i < Len(bytes)
    THEN CASE bytes[i + 1] = "\n" ->
                split_lines_loop(bytes, Append(lines, slice_range(bytes, start, i)),
                                 i + 1, i + 1)
           [] bytes[i + 1] = "\r" ->
                split_lines_loop(bytes, Append(lines, slice_range(bytes, start, i)),
                                 i + 1,
                                 IF i + 1 < Len(bytes) /\ bytes[i + 2] = "\n"
                                 THEN i + 2 ELSE i + 1)
           [] OTHER -> split_lines_loop(bytes, lines, start, i + 1)
    ELSE IF start < Len(bytes)
         THEN Append(lines, slice_range(bytes, start, Len(bytes)))
         ELSE lines

\* Formatter::split_lines(slice)
split_lines(bytes) == split_lines_loop(bytes, <<>>, 0, 0)

NotSplit == [pc |-> "ready", lines |-> <<>>]

\* No text split.
LinesIdle ==
    /\ slice = <<>>
    /\ split = [NotSplit EXCEPT !.pc = "idle"]

------------------------------------------------------------------------------
(* The services: one task per source, collected in spawn order.            *)

Sources == 1..MaxFiles

NoSource == 0

\* The text of a source, as found on disk before a run.
OriginalContent(id) == [text |-> id, formatted |-> FALSE]

NoContent == [text |-> NoSource, formatted |-> FALSE]

\* fennec_formatter::format: the text of a program, laid out again.
format(content) == [content EXCEPT !.formatted = TRUE]

NoSourceError == [source |-> NoSource, operation |-> "none"]

SourceError(id, operation) == [source |-> id, operation |-> operation]

NoSemantics == [source |-> NoSource, issues |-> <<>>, parse_error |-> FALSE]

\* A task that has not returned, Result::Ok and Result::Err of a task.
NoOutput == [state |-> "pending", issues |-> <<>>, error |-> NoSourceError]

TaskOk(issues) == [state |-> "ok", issues |-> issues, error |-> NoSourceError]

TaskErr(error) == [state |-> "err", issues |-> <<>>, error |-> error]

\* `incremented` is the history of the task: the bars it called inc(1) on, in
\* the order of the calls.
NotSpawned ==
    [pc |-> "unspawned", formatted |-> NoContent, semantics |-> NoSemantics,
     output |-> NoOutput, incremented |-> <<>>]

\* run before it is called, while it runs, and its Result.
Idle == [state |-> "idle", count |-> 0, issues |-> <<>>, error |-> NoSourceError]

Running == [Idle EXCEPT !.state = "running"]

RunOk(count, issues) == [Idle EXCEPT !.state = "ok", !.count = count, !.issues = issues]

RunErr(error) == [Idle EXCEPT !.state = "err", !.error = error]

NoProgress ==
    [source_pb |-> 0, parse_pb |-> 0, format_pb |-> 0, write_pb |-> 0,
     semantics_pb |-> 0, lint_pb |-> 0, length |-> 0, removed |-> FALSE]

\* create_progress_bar for each bar of a run over n sources.
create_progress_bars(n) == [NoProgress EXCEPT !.length = n]

\* ProgressBar::inc(1) on each of the bars named.
inc(bars, names) ==
    [b \in DOMAIN bars |-> IF b \in names THEN bars[b] + 1 ELSE bars[b]]

RECURSIVE select_ids(_, _)
\* The ids up to n that are in `keep`, in ascending order.
select_ids(n, keep) ==
    IF n = 0 THEN <<>>
    ELSE IF n \in keep THEN Append(select_ids(n - 1, keep), n)
    ELSE select_ids(n - 1, keep)

\* SourceManager::source_ids
all_source_ids(m) == select_ids(MaxFiles, DOMAIN m)

\* SourceManager::user_defined_source_ids
user_defined_source_ids(m) == select_ids(MaxFiles, {id \in DOMAIN m : ~m[id].external})

\* LintService::filter_semantics
filter_semantics(linter_settings, m) ==
    IF ~linter_settings.external
    THEN select_ids(MaxFiles, {id \in DOMAIN m : ~m[id].external})
    ELSE all_source_ids(m)

\* No service constructed: the state the parser is exercised in.
ServiceIdle ==
    /\ service = "none"
    /\ manager = [id \in Sources |->
                    [content |-> OriginalContent(id), external |-> FALSE,
                     load_error |-> FALSE, write_error |-> FALSE]]
    /\ analysis = [id \in Sources |->
                    [parse_error |-> FALSE, linter_issues |-> 0, semantic_issues |-> 0]]
    /\ settings = [external |-> FALSE]
    /\ source_ids = <<>>
    /\ handles = <<>>
    /\ tasks = [id \in Sources |-> NotSpawned]
    /\ progress = NoProgress
    /\ feedback = {}
    /\ collector = [next |-> 1, count |-> 0, results |-> <<>>]
    /\ run_result = Idle

\* Every source id has its task spawned: the `for source_id` loop is over.
all_spawned == Len(handles) = Len(source_ids)

------------------------------------------------------------------------------
(* FormatterService.                                                       *)

\* The files source id `id` can be: loadable or not, writable or not.
Files(id) ==
    {[content |-> OriginalContent(id), external |-> e, load_error |-> l,
      write_error |-> w] : e \in BOOLEAN, l \in BOOLEAN, w \in BOOLEAN}

\* A file that cannot be loaded is never parsed nor written and a file that
\* does not parse is never written: what those steps would yield is left out.
FormatterManagers ==
    {m \in [Sources -> UNION {Files(id) : id \in Sources}] :
        \A id \in Sources : m[id] \in Files(id) /\ (m[id].load_error => ~m[id].write_error)}

FormatterAnalyses ==
    [Sources -> [parse_error : BOOLEAN, linter_issues : {0}, semantic_issues : {0}]]

\* A FormatterService constructed over a source manager.
FormatterInit ==
    /\ service = "formatter"
    /\ manager \in FormatterManagers
    /\ analysis \in FormatterAnalyses
    /\ \A id \in Sources :
            analysis[id].parse_error => ~(manager[id].load_error \/ manager[id].write_error)
    /\ settings = [external |-> FALSE]
    /\ source_ids = <<>>
    /\ handles = <<>>
    /\ tasks = [id \in Sources |-> NotSpawned]
    /\ progress = NoProgress
    /\ feedback = {}
    /\ collector = [next |-> 1, count |-> 0, results |-> <<>>]
    /\ run_result = Idle

\* FormatterService::run, up to the creation of the progress bars.
FormatterRun ==
    /\ service = "formatter"
    /\ run_result = Idle
    /\ source_ids' = user_defined_source_ids(manager)
    /\ progress' = create_progress_bars(Len(user_defined_source_ids(manager)))
    /\ run_result' = Running
    /\ UNCHANGED <<service, manager, analysis, settings, handles, tasks, feedback,
                   collector>>

\* One turn of `for source_id in source_ids`: tokio::spawn of the task.
FormatterSpawn ==
    /\ service = "formatter"
    /\ run_result = Running
    /\ ~all_spawned
    /\ LET source_id == source_ids[Len(handles) + 1] IN
        /\ handles' = Append(handles, source_id)
        /\ tasks' = [tasks EXCEPT ![source_id].pc = "load"]
    /\ UNCHANGED <<service, manager, analysis, settings, source_ids, progress,
                   feedback, collector, run_result>>

\* FormatterLoad loading the source without a word to the loading bar.
FormatterLoad_without_progress(id) ==
    /\ service = "formatter"
    /\ tasks[id].pc = "load"
    /\ IF manager[id].load_error
       THEN tasks' = [tasks EXCEPT ![id].pc = "finished",
                                   ![id].output = TaskErr(SourceError(id, "load"))]
       ELSE tasks' = [tasks EXCEPT ![id].pc = "parse"]
    /\ UNCHANGED <<service, manager, analysis, settings, source_ids, handles,
                   progress, feedback, collector, run_result>>

\* Step 1 of the task: load the source.
FormatterLoad(id) ==
    /\ service = "formatter"
    /\ tasks[id].pc = "load"
    /\ IF manager[id].load_error
       THEN /\ tasks' = [tasks EXCEPT ![id].pc = "finished",
                                      ![id].output = TaskErr(SourceError(id, "load"))]
            /\ UNCHANGED progress
       ELSE /\ tasks' = [tasks EXCEPT ![id].pc = "parse",
                                      ![id].incremented = Append(@, "source_pb")]
            /\ progress' = inc(progress, {"source_pb"})
    /\ UNCHANGED <<service, manager, analysis, settings, source_ids, handles,
                   feedback, collector, run_result>>

\* FormatterParse formatting the program whether or not the parse failed.
FormatterParse_ignoring_the_error(id) ==
    /\ service = "formatter"
    /\ tasks[id].pc = "parse"
    /\ tasks' = [tasks EXCEPT ![id].pc = "format",
                              ![id].incremented = Append(@, "parse_pb")]
    /\ progress' = inc(progress, {"parse_pb"})
    /\ UNCHANGED <<service, manager, analysis, settings, source_ids, handles,
                   feedback, collector, run_result>>

\* Step 2 of the task: parse the source; skip the source on a parse error.
FormatterParse(id) ==
    /\ service = "formatter"
    /\ tasks[id].pc = "parse"
    /\ IF analysis[id].parse_error
       THEN /\ feedback' = feedback \cup {id}
            /\ progress' = inc(progress, {"parse_pb", "format_pb", "write_pb"})
            /\ tasks' = [tasks EXCEPT ![id].pc = "finished",
                                      ![id].output = TaskOk(<<>>),
                                      ![id].incremented =
                                          @ \o <<"parse_pb", "format_pb", "write_pb">>]
       ELSE /\ tasks' = [tasks EXCEPT ![id].pc = "format",
                                      ![id].incremented = Append(@, "parse_pb")]
            /\ progress' = inc(progress, {"parse_pb"})
            /\ UNCHANGED feedback
    /\ UNCHANGED <<service, manager, analysis, settings, source_ids, handles,
                   collector, run_result>>

\* Step 3 of the task: format the source.
FormatterFormat(id) ==
    /\ service = "formatter"
    /\ tasks[id].pc = "format"
    /\ tasks' = [tasks EXCEPT ![id].pc = "write",
                              ![id].formatted = format(manager[id].content),
                              ![id].incremented = Append(@, "format_pb")]
    /\ progress' = inc(progress, {"format_pb"})
    /\ UNCHANGED <<service, manager, analysis, settings, source_ids, handles,
                   feedback, collector, run_result>>

\* FormatterWrite writing to the source spawned last instead of its own.
FormatterWrite_to_the_last_source(id) ==
    /\ service = "formatter"
    /\ tasks[id].pc = "write"
    /\ manager' = [manager EXCEPT ![handles[Len(handles)]].content = tasks[id].formatted]
    /\ tasks' = [tasks EXCEPT ![id].pc = "finished", ![id].output = TaskOk(<<>>),
                              ![id].incremented = Append(@, "write_pb")]
    /\ progress' = inc(progress, {"write_pb"})
    /\ UNCHANGED <<service, analysis, settings, source_ids, handles, feedback,
                   collector, run_result>>

\* Step 4 of the task: write the formatted source.
FormatterWrite(id) ==
    /\ service = "formatter"
    /\ tasks[id].pc = "write"
    /\ IF manager[id].write_error
       THEN /\ tasks' = [tasks EXCEPT ![id].pc = "finished",
                                      ![id].output = TaskErr(SourceError(id, "write"))]
            /\ UNCHANGED <<manager, progress>>
       ELSE /\ manager' = [manager EXCEPT ![id].content = tasks[id].formatted]
            /\ tasks' = [tasks EXCEPT ![id].pc = "finished",
                                      ![id].output = TaskOk(<<>>),
                                      ![id].incremented = Append(@, "write_pb")]
            /\ progress' = inc(progress, {"write_pb"})
    /\ UNCHANGED <<service, analysis, settings, source_ids, handles, feedback,
                   collector, run_result>>

\* FormatterAwait counting the files written instead of the tasks awaited.
FormatterAwait_counting_the_files_written ==
    /\ service = "formatter"
    /\ run_result = Running
    /\ all_spawned
    /\ collector.next <= Len(handles)
    /\ LET task == tasks[handles[collector.next]] IN
        /\ task.pc = "finished"
        /\ IF task.output.state = "err"
           THEN /\ run_result' = RunErr(task.output.error)
                /\ UNCHANGED collector
           ELSE /\ collector' =
                    [collector EXCEPT
                        !.next = @ + 1,
                        !.count = IF handles[collector.next] \in feedback THEN @ ELSE @ + 1]
                /\ UNCHANGED run_result
    /\ UNCHANGED <<service, manager, analysis, settings, source_ids, handles, tasks,
                   progress, feedback>>

\* One turn of `for handle in handles`: await the task, return its error.
FormatterAwait ==
    /\ service = "formatter"
    /\ run_result = Running
    /\ all_spawned
    /\ collector.next <= Len(handles)
    /\ LET task == tasks[handles[collector.next]] IN
        /\ task.pc = "finished"
        /\ IF task.output.state = "err"
           THEN /\ run_result' = RunErr(task.output.error)
                /\ UNCHANGED collector
           ELSE /\ collector' = [collector EXCEPT !.next = @ + 1, !.count = @ + 1]
                /\ UNCHANGED run_result
    /\ UNCHANGED <<service, manager, analysis, settings, source_ids, handles, tasks,
                   progress, feedback>>

\* After the loop: remove the progress bars, return the count.
FormatterReturn ==
    /\ service = "formatter"
    /\ run_result = Running
    /\ all_spawned
    /\ collector.next > Len(handles)
    /\ progress' = [progress EXCEPT !.removed = TRUE]
    /\ run_result' = RunOk(collector.count, <<>>)
    /\ UNCHANGED <<service, manager, analysis, settings, source_ids, handles, tasks,
                   feedback, collector>>

FormatterTask(id) ==
    FormatterLoad(id) \/ FormatterParse(id) \/ FormatterFormat(id) \/ FormatterWrite(id)

FormatterNext ==
    \/ FormatterRun
    \/ FormatterSpawn
    \/ \E id \in Sources : FormatterTask(id)
    \/ FormatterAwait
    \/ FormatterReturn

------------------------------------------------------------------------------
(* LintService.                                                            *)

Issue(id, origin, n) == [source |-> id, origin |-> origin, n |-> n]

\* Into::<Issue>::into(&ParseError)
issue_from_parse_error(id) == Issue(id, "parse_error", 1)

\* Semantics::build: the semantic issues of the source and its parse error.
build(id, a) ==
    [source |-> id,
     issues |-> [n \in 1..a[id].semantic_issues |-> Issue(id, "semantics", n)],
     parse_error |-> a[id].parse_error]

\* Linter::lint: the issues the rules report on the semantics of a source.
lint(semantics, a) ==
    [n \in 1..a[semantics.source].linter_issues |-> Issue(semantics.source, "linter", n)]

\* collect_issues without the issues of the semantics.
collect_issues_without_semantics(semantics, a) ==
    IF semantics.parse_error
    THEN Append(lint(semantics, a), issue_from_parse_error(semantics.source))
    ELSE lint(semantics, a)

\* Step 3 of the task: the issues of the linter, then those of the
\* semantics, then the parse error if there is one.
collect_issues(semantics, a) ==
    LET issues == lint(semantics, a) \o semantics.issues IN
    IF semantics.parse_error
    THEN Append(issues, issue_from_parse_error(semantics.source))
    ELSE issues

RECURSIVE flatten(_)
\* results.into_iter().flatten()
flatten(results) ==
    IF results = <<>> THEN <<>> ELSE Head(results) \o flatten(Tail(results))

\* What is never written is left out, and so is what building and linting
\* a file that cannot be loaded would yield.
LintManagers ==
    {m \in [Sources -> UNION {Files(id) : id \in Sources}] :
        \A id \in Sources : m[id] \in Files(id) /\ ~m[id].write_error}

LintAnalyses ==
    [Sources -> [parse_error : BOOLEAN, linter_issues : {0, MaxIssues},
                 semantic_issues : {0, MaxIssues}]]

NoAnalysis == [parse_error |-> FALSE, linter_issues |-> 0, semantic_issues |-> 0]

\* A LintService constructed over a source manager and a configuration.
LintInit ==
    /\ service = "linter"
    /\ manager \in LintManagers
    /\ analysis \in LintAnalyses
    /\ \A id \in Sources : manager[id].load_error => analysis[id] = NoAnalysis
    /\ settings \in [external : BOOLEAN]
    /\ source_ids = <<>>
    /\ handles = <<>>
    /\ tasks = [id \in Sources |-> NotSpawned]
    /\ progress = NoProgress
    /\ feedback = {}
    /\ collector = [next |-> 1, count |-> 0, results |-> <<>>]
    /\ run_result = Idle

\* LintService::run, up to the creation of the progress bars.
LintRun ==
    /\ service = "linter"
    /\ run_result = Idle
    /\ source_ids' = filter_semantics(settings, manager)
    /\ progress' = create_progress_bars(Len(filter_semantics(settings, manager)))
    /\ run_result' = Running
    /\ UNCHANGED <<service, manager, analysis, settings, handles, tasks, feedback,
                   collector>>

\* One turn of `for source_id in source_ids`: tokio::spawn of the task.
LintSpawn ==
    /\ service = "linter"
    /\ run_result = Running
    /\ ~all_spawned
    /\ LET source_id == source_ids[Len(handles) + 1] IN
        /\ handles' = Append(handles, source_id)
        /\ tasks' = [tasks EXCEPT ![source_id].pc = "load"]
    /\ UNCHANGED <<service, manager, analysis, settings, source_ids, progress,
                   feedback, collector, run_result>>

\* Step 1 of the task: load the source.
LintLoad(id) ==
    /\ service = "linter"
    /\ tasks[id].pc = "load"
    /\ IF manager[id].load_error
       THEN /\ tasks' = [tasks EXCEPT ![id].pc = "finished",
                                      ![id].output = TaskErr(SourceError(id, "load"))]
            /\ UNCHANGED progress
       ELSE /\ tasks' = [tasks EXCEPT ![id].pc = "build",
                                      ![id].incremented = Append(@, "source_pb")]
            /\ progress' = inc(progress, {"source_pb"})
    /\ UNCHANGED <<service, manager, analysis, settings, source_ids, handles,
                   feedback, collector, run_result>>

\* Step 2 of the task: build the semantics.
LintBuild(id) ==
    /\ service = "linter"
    /\ tasks[id].pc = "build"
    /\ tasks' = [tasks EXCEPT ![id].pc = "lint", ![id].semantics = build(id, analysis),
                              ![id].incremented = Append(@, "semantics_pb")]
    /\ progress' = inc(progress, {"semantics_pb"})
    /\ UNCHANGED <<service, manager, analysis, settings, source_ids, handles,
                   feedback, collector, run_result>>

\* Step 3 of the task: collect the issues and return them.
LintCollect(id) ==
    /\ service = "linter"
    /\ tasks[id].pc = "lint"
    /\ tasks' = [tasks EXCEPT
                    ![id].pc = "finished",
                    ![id].output = TaskOk(collect_issues(tasks[id].semantics, analysis)),
                    ![id].incremented = Append(@, "lint_pb")]
    /\ progress' = inc(progress, {"lint_pb"})
    /\ UNCHANGED <<service, manager, analysis, settings, source_ids, handles,
                   feedback, collector, run_result>>

\* One turn of `for handle in handles`: await the task, keep its issues or
\* return its error.
LintAwait ==
    /\ service = "linter"
    /\ run_result = Running
    /\ all_spawned
    /\ collector.next <= Len(handles)
    /\ LET task == tasks[handles[collector.next]] IN
        /\ task.pc = "finished"
        /\ IF task.output.state = "err"
           THEN /\ run_result' = RunErr(task.output.error)
                /\ UNCHANGED collector
           ELSE /\ collector' = [collector EXCEPT
                                    !.next = @ + 1,
                                    !.results = Append(@, task.output.issues)]
                /\ UNCHANGED run_result
    /\ UNCHANGED <<service, manager, analysis, settings, source_ids, handles, tasks,
                   progress, feedback>>

\* After the loop: remove the progress bars, return the LintResult.
LintReturn ==
    /\ service = "linter"
    /\ run_result = Running
    /\ all_spawned
    /\ collector.next > Len(handles)
    /\ progress' = [progress EXCEPT !.removed = TRUE]
    /\ run_result' = RunOk(0, flatten(collector.results))
    /\ UNCHANGED <<service, manager, analysis, settings, source_ids, handles, tasks,
                   feedback, collector>>

LintTask(id) == LintLoad(id) \/ LintBuild(id) \/ LintCollect(id)

LintNext ==
    \/ LintRun
    \/ LintSpawn
    \/ \E id \in Sources : LintTask(id)
    \/ LintAwait
    \/ LintReturn

------------------------------------------------------------------------------
(* The services as a state machine: one service is constructed and run.    *)

ParserIdle ==
    /\ tokens = <<>>
    /\ precedence = "Lowest"
    /\ result = [ok |-> FALSE, expr |-> NoExpression, pos |-> 0, err |-> NoError]
    /\ pc = "idle"
    /\ assignment = NotAssigned
    /\ document = NotFormatted
    /\ reparsed = NotParsed

ServiceInit ==
    /\ ParserIdle
    /\ ProgramIdle
    /\ LayoutIdle
    /\ CommandIdle
    /\ CastIdle
    /\ KindIdle
    /\ LinesIdle
    /\ (FormatterInit \/ LintInit)

ServiceNext ==
    /\ FormatterNext \/ LintNext
    /\ UNCHANGED <<parserVars, programVars, layoutVars, commandVars, castVars, kindVars,
                   linesVars>>

-----------------------------------------------------------------------------
(* The formatter as a state machine: a source text is formatted, and the   *)
(* text that comes out is formatted again.                                 *)

\* The source texts the parser accepts, with inline content made of its own
\* characters and line terminators.
ValidSourceTexts ==
    {text \in SourceTexts :
        LET program == parse_program(text) IN
        /\ program.ok
        /\ \A i \in 1..Len(program.statements) :
                \A j \in 1..Len(program.statements[i].value) :
                    program.statements[i].value[j] \in {"h", "\n"}}

ProgramInit ==
    /\ program_source \in ValidSourceTexts
    /\ program_settings \in ProgramSettings
    /\ program_output = <<>>
    /\ program_formatter = <<>>
    /\ ParserIdle
    /\ ServiceIdle
    /\ LayoutIdle
    /\ CommandIdle
    /\ CastIdle
    /\ KindIdle
    /\ LinesIdle

\* The text the next format call is made on.
NextSource ==
    IF program_output = <<>> THEN program_source
    ELSE program_output[Len(program_output)]

\* format(settings, interner, source, program) on the parsed source.
FormatProgram ==
    /\ Len(program_output) < 2
    /\ parse_program(NextSource).ok
    /\ program_output' =
            Append(program_output,
                   format_source(program_settings, NextSource, parse_program(NextSource)))
    /\ program_formatter' =
            Append(program_formatter,
                   print_block_body(NewFormatter(program_settings), NextSource,
                                    parse_program(NextSource).statements))
    /\ UNCHANGED <<program_source, program_settings>>
    /\ UNCHANGED <<parserVars, serviceVars, layoutVars, commandVars, castVars, kindVars,
                   linesVars>>

ProgramNext == FormatProgram

-----------------------------------------------------------------------------
(* The assignment layout as a state machine: one call of choose_layout or  *)
(* of is_lone_short_argument is made on inputs drawn from the bounded sets. *)

LayoutInit ==
    /\ \/ /\ argument_call \in [pending : {TRUE}, settings : ArgumentSettings,
                                 argument_value : ArgumentValues]
          /\ layout_call = NoCall
       \/ /\ argument_call = NoCall
          /\ layout_call \in LayoutCalls
    /\ argument_short = FALSE
    /\ layout = "none"
    /\ ParserIdle
    /\ ServiceIdle
    /\ ProgramIdle
    /\ CommandIdle
    /\ CastIdle
    /\ KindIdle
    /\ LinesIdle

\* is_lone_short_argument(f, argument_value)
IsLoneShortArgument ==
    /\ argument_call.pending
    /\ argument_short' =
            is_lone_short_argument(FormatterAt(argument_call.settings, <<>>),
                                   argument_call.argument_value)
    /\ argument_call' = [argument_call EXCEPT !.pending = FALSE]
    /\ UNCHANGED <<layout_call, layout>>
    /\ UNCHANGED <<parserVars, serviceVars, programVars, commandVars, castVars, kindVars,
                   linesVars>>

\* choose_layout(f, lhs, assignment_like_node, rhs_expression), with the
\* assignment-like node on top of the formatter's stack.
ChooseLayout ==
    /\ layout_call.pending
    /\ layout' =
            choose_layout(FormatterAt(layout_call.settings,
                                      Append(layout_call.ancestors, layout_call.node.kind)),
                          layout_call.lhs, layout_call.node, layout_call.node.rhs)
    /\ layout_call' = [layout_call EXCEPT !.pending = FALSE]
    /\ UNCHANGED <<argument_call, argument_short>>
    /\ UNCHANGED <<parserVars, serviceVars, programVars, commandVars, castVars, kindVars,
                   linesVars>>

LayoutNext ==
    \/ IsLoneShortArgument
    \/ ChooseLayout

-----------------------------------------------------------------------------
(* The parser as a state machine: a stream is handed over, one call is     *)
(* made on it.                                                             *)

ParserInit ==
    /\ tokens \in TokenStreams
    /\ precedence = "Lowest"
    /\ result = NotParsed
    /\ pc = "ready"
    /\ assignment = NotAssigned
    /\ document = NotFormatted
    /\ reparsed = NotParsed
    /\ ServiceIdle
    /\ ProgramIdle
    /\ LayoutIdle
    /\ CommandIdle
    /\ CastIdle
    /\ KindIdle
    /\ LinesIdle

\* parse_expression(stream)
ParseExpression ==
    /\ pc = "ready"
    /\ result' = parse_expression(tokens, 1)
    /\ precedence' = "Lowest"
    /\ pc' = "done"
    /\ UNCHANGED <<tokens, assignment, document, reparsed>>
    /\ UNCHANGED <<serviceVars, programVars, layoutVars, commandVars, castVars, kindVars,
                   linesVars>>

\* parse_expression_with_precedence(stream, precedence)
ParseExpressionWithPrecedence ==
    /\ pc = "ready"
    /\ \E p \in CallerPrecedences :
        /\ precedence' = p
        /\ result' = parse_expression_with_precedence(tokens, 1, p)
    /\ pc' = "done"
    /\ UNCHANGED <<tokens, assignment, document, reparsed>>
    /\ UNCHANGED <<serviceVars, programVars, layoutVars, commandVars, castVars, kindVars,
                   linesVars>>

\* create_assignment_expression(lhs, operator, rhs), on the expression the
\* stream parsed to: what the `=` arms of parse_infix_expression do with it.
CreateAssignmentExpression ==
    /\ pc = "done"
    /\ precedence = "Lowest"
    /\ result.ok
    /\ \E kind \in AssignmentOperators, rhs \in AssignmentOperands(Len(tokens) + 2) :
        LET operator == [kind |-> kind, span |-> Len(tokens) + 1] IN
        assignment' = [lhs |-> result.expr, operator |-> operator, rhs |-> rhs,
                       expr |-> create_assignment_expression(result.expr, operator, rhs)]
    /\ pc' = "assigned"
    /\ UNCHANGED <<tokens, precedence, result, document, reparsed>>
    /\ UNCHANGED <<serviceVars, programVars, layoutVars, commandVars, castVars, kindVars,
                   linesVars>>

\* Expression::format on the expression the stream parsed to, printed.
FormatExpression ==
    /\ pc = "done"
    /\ precedence = "Lowest"
    /\ result.ok
    /\ \E format_settings \in FormatSettings :
        LET printed == format_expression(result.expr) IN
        document' = [panicked |-> printed.panicked,
                     text |-> printed.text,
                     printer |-> IF expression_variant(result.expr.k) = "Call"
                                 THEN call_printer(result.expr, format_settings)
                                 ELSE "none",
                     settings |-> format_settings]
    /\ pc' = "formatted"
    /\ UNCHANGED <<tokens, precedence, result, assignment, reparsed>>
    /\ UNCHANGED <<serviceVars, programVars, layoutVars, commandVars, castVars, kindVars,
                   linesVars>>

\* parse_expression on the tokens of the formatted text, followed by the tokens
\* the first parse left in the stream (the rest of the statement).
ParseFormatted ==
    /\ pc = "formatted"
    /\ ~document.panicked
    /\ reparsed' = parse_expression(document.text \o SubSeq(tokens, result.pos, Len(tokens)), 1)
    /\ pc' = "reparsed"
    /\ UNCHANGED <<tokens, precedence, result, assignment, document>>
    /\ UNCHANGED <<serviceVars, programVars, layoutVars, commandVars, castVars, kindVars,
                   linesVars>>

ParserNext ==
    \/ ParseExpression
    \/ ParseExpressionWithPrecedence
    \/ CreateAssignmentExpression
    \/ FormatExpression
    \/ ParseFormatted

------------------------------------------------------------------------------
(* The lint command.                                                       *)

CommandInit ==
    /\ command \in [only_fixable : BOOLEAN]
    /\ lint_run \in LintRuns
    /\ execution = NotExecuted
    /\ ParserIdle
    /\ ServiceIdle
    /\ ProgramIdle
    /\ LayoutIdle
    /\ CastIdle
    /\ KindIdle
    /\ LinesIdle

\* execute: the run returned the issues, which are reported; the exit code.
Execute ==
    /\ execution.pc = "ready"
    /\ lint_run.ok
    /\ LET returned == execute(command, lint_run.issues) IN
        execution' = [pc |-> "returned", reported |-> returned.reported,
                      exit_code |-> returned.exit_code]
    /\ UNCHANGED <<command, lint_run>>
    /\ UNCHANGED <<parserVars, serviceVars, programVars, layoutVars, castVars, kindVars,
                   linesVars>>

\* execute: the run returned an error, and bail ends the process.
Bail ==
    /\ execution.pc = "ready"
    /\ ~lint_run.ok
    /\ execution' = [execution EXCEPT !.pc = "bailed"]
    /\ UNCHANGED <<command, lint_run>>
    /\ UNCHANGED <<parserVars, serviceVars, programVars, layoutVars, castVars, kindVars,
                   linesVars>>

CommandNext == Execute \/ Bail

------------------------------------------------------------------------------
(* Cast operators.                                                         *)

CastInit ==
    /\ cast_settings \in CastSettings
    /\ cast_operator \in CastOperators
    /\ cast_document = <<>>
    /\ ParserIdle
    /\ ServiceIdle
    /\ ProgramIdle
    /\ LayoutIdle
    /\ CommandIdle
    /\ KindIdle
    /\ LinesIdle

\* self.operator.format(f)
FormatCastOperator ==
    /\ cast_document = <<>>
    /\ cast_operator # NoCastOperator
    /\ cast_document' = format_cast_operator(cast_settings, cast_operator)
    /\ UNCHANGED <<cast_settings, cast_operator>>
    /\ UNCHANGED <<parserVars, serviceVars, programVars, layoutVars, commandVars, kindVars,
                   linesVars>>

CastNext == FormatCastOperator

------------------------------------------------------------------------------
(* The reflector.                                                          *)

KindInit ==
    /\ Hints(hint)
    /\ context \in Contexts
    /\ reflection = NotReflected
    /\ ParserIdle
    /\ ServiceIdle
    /\ ProgramIdle
    /\ LayoutIdle
    /\ CommandIdle
    /\ CastIdle
    /\ LinesIdle

\* reflect_hint(hint, context)
ReflectHint ==
    /\ hint # NoHint
    /\ reflection = NotReflected
    /\ reflection' = reflect_hint(hint, context)
    /\ UNCHANGED <<hint, context>>
    /\ UNCHANGED <<parserVars, serviceVars, programVars, layoutVars, commandVars, castVars,
                   linesVars>>

KindNext == ReflectHint

------------------------------------------------------------------------------
(* split_lines.                                                            *)

LinesInit ==
    /\ slice \in SeqsUpTo(SliceBytes, MaxSlice)
    /\ split = NotSplit
    /\ ParserIdle
    /\ ServiceIdle
    /\ ProgramIdle
    /\ LayoutIdle
    /\ CommandIdle
    /\ CastIdle
    /\ KindIdle

\* Formatter::split_lines(f.lookup(&l.value))
SplitLines ==
    /\ split.pc = "ready"
    /\ split' = [pc |-> "returned", lines |-> split_lines(slice)]
    /\ UNCHANGED slice
    /\ UNCHANGED <<parserVars, serviceVars, programVars, layoutVars, commandVars, castVars,
                   kindVars>>

LinesNext == SplitLines

vars == <<program_source, program_settings, program_output, program_formatter,
          argument_call, argument_short, layout_call, layout,
          tokens, precedence, result, pc, assignment, document, reparsed, service, manager, analysis, settings,
          source_ids, handles, tasks, progress, feedback, collector, run_result,
          command, lint_run, execution,
          cast_settings, cast_operator, cast_document,
          hint, context, reflection,
          slice, split>>

Init == ParserInit

Next == ParserNext

Spec == Init /\ [][Next]_vars

ServiceSpec == ServiceInit /\ [][ServiceNext]_vars

ProgramSpec == ProgramInit /\ [][ProgramNext]_vars

LayoutSpec == LayoutInit /\ [][LayoutNext]_vars

CommandSpec == CommandInit /\ [][CommandNext]_vars

CastSpec == CastInit /\ [][CastNext]_vars

KindSpec == KindInit /\ [][KindNext]_vars

LinesSpec == LinesInit /\ [][LinesNext]_vars

-----------------------------------------------------------------------------
(* Properties of the expression parser.                                    *)

\* The operand built from the token at index i.
Operand(i) == Node("Variable", "", <<i>>, <<>>)

\* The node of a binary infix operator, by operator family.
OperatorNode(op, at, lhs, rhs) ==
    Node(CASE op \in AssignmentTokens -> "AssignmentOperation"
           [] op \in ArithmeticInfixTokens -> "ArithmeticOperation::Infix"
           [] op \in BitwiseInfixTokens -> "BitwiseOperation::Infix"
           [] OTHER -> "BinaryOperation",
         op, <<at>>, <<lhs, rhs>>)

\* `a op2 (b op1 c)` and `(a op2 b) op1 c` for the stream `a op2 b op1 c`.
RightNested(toks) ==
    OperatorNode(toks[2], 2, Operand(1), OperatorNode(toks[4], 4, Operand(3), Operand(5)))

LeftNested(toks) ==
    OperatorNode(toks[4], 4, OperatorNode(toks[2], 2, Operand(1), Operand(3)), Operand(5))

ParsedAtLowest == pc = "done" /\ precedence = "Lowest"

\* C1: for every pair of binary infix operators op1, op2 with
\* precedence(op1) > precedence(op2), parse_expression on `a op2 b op1 c`
\* returns `a op2 (b op1 c)`: the lower-precedence operator is the root and the
\* higher-precedence operator is its right child.
C1_HigherPrecedenceIsTheChild ==
    (/\ ParsedAtLowest
     /\ tokens \in PrecedenceStreams
     /\ Rank(infix(tokens[4])) > Rank(infix(tokens[2])))
        => result = Ok(RightNested(tokens), 6)

C1_Witness ==
    /\ ParsedAtLowest
    /\ tokens = <<"$variable", "+", "$variable", "*", "$variable">>
    /\ result.ok
    /\ result.expr.op = "+"
    /\ result.expr.kids[2].op = "*"

\* The operators an assignment is rotated under.
RotatedUnderTokens ==
    ComparisonTokens \cup LogicalTokens \cup BitwiseInfixTokens \cup ArithmeticInfixTokens

\* C2: parsing `$x == $y = $z`, and likewise any comparison, logical,
\* bitwise-infix or arithmetic-infix operator followed by any assignment
\* operator, yields the infix node as root with the assignment node as its
\* right operand, never an assignment whose left operand is the infix node.
C2_AssignmentUnderInfix ==
    (/\ ParsedAtLowest
     /\ tokens \in PrecedenceStreams
     /\ tokens[2] \in RotatedUnderTokens
     /\ tokens[4] \in AssignmentTokens)
        => /\ result.ok
           /\ result.pos = 6
           /\ result.expr.k # "AssignmentOperation"
           /\ result.expr.op = tokens[2]
           /\ result.expr.sp = <<2>>
           /\ result.expr.kids =
                <<Operand(1), Node("AssignmentOperation", tokens[4], <<4>>,
                                   <<Operand(3), Operand(5)>>)>>

C2_Witness ==
    /\ ParsedAtLowest
    /\ tokens = <<"$variable", "==", "$variable", "=", "$variable">>
    /\ result.ok
    /\ result.expr.k = "BinaryOperation"
    /\ result.expr.kids[2].k = "AssignmentOperation"

\* C3: for two operators of one left-associative precedence level,
\* `a op b op c` parses as `(a op b) op c`; and a call of
\* parse_expression_with_precedence whose minimum is that level stops, without
\* consuming it, at the operator that follows its first operand, so that the
\* chain is folded by the loop of the caller.
C3_LeftAssociativeChain ==
    (/\ pc = "done"
     /\ tokens \in PrecedenceStreams
     /\ infix(tokens[2]) = infix(tokens[4])
     /\ associativity(infix(tokens[2])) = "Left")
        => /\ precedence = "Lowest" => result = Ok(LeftNested(tokens), 6)
           /\ precedence = infix(tokens[2]) => result = Ok(Operand(1), 2)

C3_Witness ==
    /\ ParsedAtLowest
    /\ tokens = <<"$variable", "-", "$variable", "+", "$variable">>
    /\ result = Ok(LeftNested(tokens), 6)
    /\ result.expr.kids[1].op = "-"

C3_WitnessStop ==
    /\ pc = "done"
    /\ precedence = "AddSub"
    /\ tokens = <<"$variable", "-", "$variable", "+", "$variable">>
    /\ result = Ok(Operand(1), 2)


RECURSIVE Nodes(_)
\* Every node of a tree.
Nodes(e) == {e} \cup UNION {Nodes(e.kids[i]) : i \in 1..Len(e.kids)}

RECURSIVE TokensOf(_)
\* The spans a tree holds: the indices of the tokens it was built from.
TokensOf(e) ==
    {e.sp[i] : i \in 1..Len(e.sp)} \cup UNION {TokensOf(e.kids[i]) : i \in 1..Len(e.kids)}

PrimaryTokens == {"$variable", "Identifier", "Literal", "static"}

\* The primary expression built from a token of kind `kind` at index i.
Primary(kind, i) ==
    Node(CASE kind = "$variable" -> "Variable"
           [] kind = "Identifier" -> "Identifier"
           [] kind = "Literal" -> "Literal"
           [] kind = "static" -> "Static",
         "", <<i>>, <<>>)

HasLookahead(toks, pos) ==
    Len(toks) >= pos + 2 /\ toks[pos + 1] = "..." /\ toks[pos + 2] = ")"

\* A primary followed by `(`, parsed with a minimum that lets the call in.
CallStream ==
    /\ pc = "done"
    /\ Len(tokens) >= 2
    /\ tokens[1] \in PrimaryTokens
    /\ tokens[2] = "("
    /\ Rank(precedence) <= Rank("CallDim")

\* C4: in postfix position, `expr(` followed by exactly `...` and `)` produces a
\* function closure-creation node that consumes exactly those three tokens and
\* holds no argument list; any other continuation after `(`, `...$args)`
\* included, produces a function call whose arguments are those of
\* parse_argument_list (and the error of parse_argument_list when it fails).
C4_CallOrClosureCreation ==
    CallStream =>
        LET function == Primary(tokens[1], 1)
            closure == Node("ClosureCreation::Function", "", <<2, 3, 4>>, <<function>>)
            arguments == parse_argument_list(tokens, 2)
            call == Node("Call::Function", "", <<>>, <<function, arguments.expr>>)
        IN  IF HasLookahead(tokens, 2)
            THEN /\ Len(tokens) = 4 => result = Ok(closure, 5)
                 /\ result.ok =>
                        /\ closure \in Nodes(result.expr)
                        /\ \A n \in Nodes(result.expr) :
                                ~(n.k = "ArgumentList" /\ n.sp[1] = 2)
                 /\ ~result.ok => result.pos >= 5
            ELSE /\ ~arguments.ok => result = arguments
                 /\ (arguments.ok /\ result.ok) => call \in Nodes(result.expr)
                 /\ result.ok =>
                        \A n \in Nodes(result.expr) :
                            ~(n.k = "ClosureCreation::Function" /\ n.kids[1] = function)

C4_Witness ==
    /\ ParsedAtLowest
    /\ tokens = <<"Identifier", "(", "...", ")">>
    /\ result.ok
    /\ result.expr.k = "ClosureCreation::Function"
    /\ result.expr.kids = <<Primary("Identifier", 1)>>
    /\ result.pos = 5

\* A primary followed by `->` or `?->` and a member selector.
MemberStream ==
    /\ pc = "done"
    /\ Len(tokens) >= 3
    /\ tokens[1] \in PrimaryTokens
    /\ tokens[2] \in {"->", "?->"}
    /\ tokens[3] \in {"Identifier", "$variable"}

MemberSelector ==
    Node(IF tokens[3] = "Identifier"
         THEN "ClassLikeMemberSelector::Identifier"
         ELSE "ClassLikeMemberSelector::Variable", "", <<3>>, <<>>)

MemberAccess ==
    Node(IF tokens[2] = "->" THEN "Access::Property" ELSE "Access::NullSafeProperty",
         "", <<2>>, <<Primary(tokens[1], 1), MemberSelector>>)

MemberCall(arguments) ==
    Node(IF tokens[2] = "->" THEN "Call::Method" ELSE "Call::NullSafeMethod",
         "", <<2>>, <<Primary(tokens[1], 1), MemberSelector, arguments>>)

MemberClosure ==
    Node("ClosureCreation::Method", "", <<2, 4, 5, 6>>,
         <<Primary(tokens[1], 1), MemberSelector>>)

IsMemberClosure(n) ==
    /\ n.k \in {"ClosureCreation::Method", "ClosureCreation::NullSafeMethod"}
    /\ n.sp[1] = 2

\* C5 as stated: for both `->` and `?->`, the selector followed by `(`, `...`,
\* `)` below the precedence ceiling produces a closure-creation node.
C5_LookaheadForBothArrows ==
    (/\ MemberStream
     /\ Len(tokens) = 6
     /\ tokens[4] = "("
     /\ HasLookahead(tokens, 4)
     /\ Rank(precedence) < Rank("CallDim"))
        => /\ result.ok
           /\ IsMemberClosure(result.expr)
           /\ result.pos = 7

\* C5, amended: after the member selector, when the next token is `(` and the
\* precedence ceiling is not reached, `->` followed by `(`, `...`, `)` produces
\* a closure-creation node and any other continuation a method call; `?->`
\* produces a null-safe method call whose arguments are those of
\* parse_argument_list whatever follows the `(`: the first-class-callable
\* lookahead is not applied to `?->`, which never produces a closure-creation
\* node.  When the next token is not `(`, a (null-safe) property access is
\* produced.
C5_MemberCallOrAccess ==
    MemberStream =>
        LET arguments == parse_argument_list(tokens, 4) IN
        IF Len(tokens) >= 4 /\ tokens[4] = "("
        THEN Rank(precedence) < Rank("CallDim") =>
                IF tokens[2] = "->" /\ HasLookahead(tokens, 4)
                THEN /\ Len(tokens) = 6 => result = Ok(MemberClosure, 7)
                     /\ result.ok => MemberClosure \in Nodes(result.expr)
                ELSE /\ ~arguments.ok => result = arguments
                     /\ (arguments.ok /\ result.ok) =>
                            MemberCall(arguments.expr) \in Nodes(result.expr)
                     /\ result.ok => \A n \in Nodes(result.expr) : ~IsMemberClosure(n)
        ELSE /\ Len(tokens) = 3 => result = Ok(MemberAccess, 4)
             /\ result.ok => MemberAccess \in Nodes(result.expr)

C5_Witness ==
    /\ ParsedAtLowest
    /\ tokens = <<"$variable", "?->", "Identifier", "(", "...", ")">>
    /\ result = parse_argument_list(tokens, 4)
    /\ ~result.ok

\* A primary followed by `::`, a selector and `(`.
StaticStream ==
    /\ pc = "done"
    /\ Len(tokens) >= 4
    /\ tokens[1] \in PrimaryTokens
    /\ tokens[2] = "::"
    /\ tokens[3] \in {"Identifier", "$variable"}
    /\ tokens[4] = "("

StaticSelector ==
    Node(IF tokens[3] = "Identifier" THEN "ClassLikeConstantSelector::Identifier"
                                     ELSE "Variable", "", <<3>>, <<>>)

StaticAccess ==
    Node(IF tokens[3] = "Identifier" THEN "Access::ClassConstant"
                                     ELSE "Access::StaticProperty",
         "", <<2>>, <<Primary(tokens[1], 1), StaticSelector>>)

\* The static method calls and static-method closure creations on the `::`.
StaticCalls(e) ==
    {n \in Nodes(e) :
        /\ n.k \in {"Call::StaticMethod", "ClosureCreation::StaticMethod"}
        /\ n.sp[1] = 2}

\* C6: `expr::selector` followed by `(` produces a static method call (or
\* static-method closure creation) only when the minimum precedence is below
\* CallDim; when it is CallDim or higher an access is produced and the `(` is
\* still unconsumed when parse_expression_with_precedence returns.
C6_ParenthesisLeftAtCeiling ==
    StaticStream =>
        /\ (result.ok /\ StaticCalls(result.expr) # {}) =>
                Rank(precedence) < Rank("CallDim")
        /\ Rank(precedence) >= Rank("CallDim") => result = Ok(StaticAccess, 4)

\* The tokens of FreeAlphabet no arm of parse_lhs_expression begins with.
CannotBeginExpression == {")", "*", "=", "==", "?", ":", "->", ";"}

\* A ParseError raised n tokens further into a longer stream.
ShiftError(e, n) == [e EXCEPT !.at = @ + n]

\* C7: expression parsing never recovers from an error.  A call that fails
\* returns no Expression and leaves the cursor where the error was raised, on
\* the offending token; the error of a failed sub-parser (the operand of a
\* parenthesis, the right operand of an infix operator) is returned unchanged
\* by the enclosing calls; a call that succeeds has built its tree from exactly
\* the tokens it consumed.  A token that cannot begin an expression yields an
\* Unexpected error carrying that token and an empty expected set.
C7_NoErrorRecovery ==
    pc = "done" =>
        /\ result.ok =>
            /\ result.err = NoError
            /\ result.expr # NoExpression
            /\ TokensOf(result.expr) = 1..(result.pos - 1)
        /\ ~result.ok =>
            /\ result.expr = NoExpression
            /\ result.err # NoError
            /\ result.pos = result.err.at
            /\ result.err.at \in 1..(Len(tokens) + 1)
            /\ IF result.err.at <= Len(tokens)
               THEN result.err.kind = "Unexpected" /\ result.err.token = tokens[result.err.at]
               ELSE result.err.kind = "UnexpectedEndOfFile"
        /\ (tokens # <<>> /\ tokens[1] \in CannotBeginExpression) =>
            result = Err([kind |-> "Unexpected", token |-> tokens[1], at |-> 1,
                          expected |-> {}], 1)
        /\ (tokens # <<>> /\ tokens[1] = "(") =>
            LET inner == parse_expression(Tail(tokens), 1) IN
            ~inner.ok => result = Err(ShiftError(inner.err, 1), inner.pos + 1)
        /\ (/\ precedence = "Lowest"
            /\ Len(tokens) >= 2
            /\ tokens[1] \in PrimaryTokens
            /\ tokens[2] \in BinaryInfixTokens) =>
            LET rhs == parse_expression_with_precedence(
                            SubSeq(tokens, 3, Len(tokens)), 1, infix(tokens[2])) IN
            ~rhs.ok => result = Err(ShiftError(rhs.err, 2), rhs.pos + 2)

C7_Witness ==
    /\ ParsedAtLowest
    /\ tokens = <<"$variable", "*", ")">>
    /\ result = Err([kind |-> "Unexpected", token |-> ")", at |-> 3, expected |-> {}], 3)

\* The node kinds with a left operand, an operator and a right operand.
InfixKinds ==
    {"BinaryOperation", "BitwiseOperation::Infix", "ArithmeticOperation::Infix",
     "AssignmentOperation", "Conditional"}

\* The precedence level of the operator of an infix node.
OperatorLevel(n) == IF n.k = "Conditional" THEN "Ternary" ELSE infix(n.op)

\* The operands parse_infix_expression parsed after consuming the operator of
\* n: the right operand, and for `?` both branches.
OperandsAfterOperator(n) ==
    IF n.k = "Conditional" THEN {n.kids[i] : i \in 2..Len(n.kids)} ELSE {n.kids[2]}

\* The lhs kinds create_assignment_expression rotates the assignment under.
Rotates(lhs) ==
    \/ lhs.k = "BinaryOperation" /\ (is_comparison(lhs.op) \/ is_logical(lhs.op))
    \/ lhs.k \in {"BitwiseOperation::Infix", "ArithmeticOperation::Infix"}

\* The right operand of n is an assignment that create_assignment_expression
\* placed there, not one the operand parser returned.
PlacedByRotation(n, operand) ==
    /\ Rotates(n)
    /\ operand.k = "AssignmentOperation"
    /\ operand.sp[1] > n.sp[1]
    /\ \A i \in TokensOf(operand.kids[1]) : i < operand.sp[1]

\* C15: after consuming an infix operator, the right operand is parsed with a
\* minimum precedence that is never below the operator's own level, so that in
\* every tree the parser returns no operand parsed after an operator (the
\* right operand, and both branches of the `?`/`:` conditional) is an
\* un-parenthesized operation of an operator of lower precedence.
C15_NoLowerOperatorInRightOperand ==
    (pc = "done" /\ result.ok) =>
        \A n \in Nodes(result.expr) :
            n.k \in InfixKinds =>
                \A operand \in OperandsAfterOperator(n) :
                    (operand.k \in InfixKinds /\ ~PlacedByRotation(n, operand)) =>
                        Rank(OperatorLevel(operand)) >= Rank(OperatorLevel(n))

\* C16: in every tree the parser returns, the left operand of an
\* AssignmentOperation is never itself a comparison, logical, bitwise-infix or
\* arithmetic-infix node: the assignment is attached to the rightmost operand
\* of the un-parenthesized infix expression it follows.
C16_AssignmentOntoRightmostOperand ==
    (pc = "done" /\ result.ok) =>
        \A n \in Nodes(result.expr) :
            n.k = "AssignmentOperation" => ~Rotates(n.kids[1])

RECURSIVE InOrder(_)
\* The left-to-right sequence of the operands and operators of a tree of infix
\* nodes; an operand is a subtree whose root is no infix node.
InOrder(e) ==
    IF e.k \in InfixKinds \ {"Conditional"}
    THEN InOrder(e.kids[1]) \o <<[operator |-> e.op, span |-> e.sp]>> \o InOrder(e.kids[2])
    ELSE <<e>>

\* C17: create_assignment_expression only changes tree shape.  The in-order
\* sequence of operands and operator spans of its result is that of
\* `lhs operator rhs`; when it rotates, the infix node's left operand and
\* operator and the assignment's rhs are kept unchanged; and an lhs that is a
\* prefix or postfix operation, a parenthesized expression or any other node
\* kind is wrapped in the assignment without rotation.
C17_OnlyTheShapeChanges ==
    pc = "assigned" =>
        LET lhs == assignment.lhs
            rhs == assignment.rhs
            operator == assignment.operator
            expr == assignment.expr
        IN  /\ InOrder(expr) =
                    InOrder(lhs)
                        \o <<[operator |-> operator.kind, span |-> <<operator.span>>]>>
                        \o InOrder(rhs)
            /\ Rotates(lhs) =>
                    /\ expr.k = lhs.k
                    /\ expr.op = lhs.op
                    /\ expr.sp = lhs.sp
                    /\ expr.kids[1] = lhs.kids[1]
                    /\ expr.kids[2].k = "AssignmentOperation"
                    /\ expr.kids[2].op = operator.kind
                    /\ expr.kids[2].kids[2] = rhs
            /\ ~Rotates(lhs) =>
                    expr = Node("AssignmentOperation", operator.kind, <<operator.span>>,
                                <<lhs, rhs>>)

C17_Witness ==
    /\ pc = "assigned"
    /\ assignment.lhs.k = "ArithmeticOperation::Infix"
    /\ assignment.lhs.kids[2].k = "ArithmeticOperation::Infix"
    /\ assignment.rhs.k = "AssignmentOperation"
    /\ assignment.expr.k = "ArithmeticOperation::Infix"
    /\ assignment.expr.kids[2].k = "AssignmentOperation"
    /\ assignment.expr.kids[2].kids[1] = assignment.lhs.kids[2]

-----------------------------------------------------------------------------
(* Properties of the expression formatter.                                 *)

Formatted == pc \in {"formatted", "reparsed"}

\* C11: formatting is total.  For every expression tree the expression parser
\* returns (binary operations, conditionals and unary operations included),
\* Expression::format returns a Document without reaching an `unreachable!()`
\* arm.
C11_FormattingIsTotal == Formatted => ~document.panicked

RECURSIVE WithoutSpans(_)
\* A tree with its spans left out.
WithoutSpans(e) ==
    [k |-> e.k, op |-> e.op, kids |-> [i \in 1..Len(e.kids) |-> WithoutSpans(e.kids[i])]]

\* C12: parsing the formatted output again yields an AST equal, ignoring
\* spans, to the AST of the original input, for every syntactically valid
\* input: there is an output, it parses, and the two trees have one shape, so
\* that the grouping of an explicitly parenthesized expression is kept.
C12_ReparsedAstIsTheSame ==
    /\ pc = "formatted" => ~document.panicked
    /\ pc = "reparsed" =>
            /\ reparsed.ok
            /\ WithoutSpans(reparsed.expr) = WithoutSpans(result.expr)

\* The number of calls of a stream of ChainStreams: one per `(`.
CallsOf(toks) == Cardinality({i \in 1..Len(toks) : toks[i] = "("})

\* C14: a call expression whose method-call chain has at least
\* method_chain_break_threshold calls is printed with print_method_call_chain;
\* a chain with fewer calls, or a call that is not a chain (a function call),
\* is printed with the regular call formatting.  The boundary is inclusive.
C14_ChainBreaksAtTheThreshold ==
    (Formatted /\ expression_variant(result.expr.k) = "Call") =>
        /\ tokens \in ChainStreams =>
                /\ CallsOf(tokens) >= document.settings.method_chain_break_threshold
                        => document.printer = "print_method_call_chain"
                /\ CallsOf(tokens) < document.settings.method_chain_break_threshold
                        => document.printer = "Call::format"
        /\ result.expr.k = "Call::Function" => document.printer = "Call::format"

C14_Witness ==
    /\ Formatted
    /\ tokens \in ChainStreams
    /\ result.expr.k = "Call::Method"
    /\ CallsOf(tokens) = 2
    /\ document.settings.method_chain_break_threshold = 2
    /\ document.printer = "print_method_call_chain"

-----------------------------------------------------------------------------
(* Properties of the formatter on a program.                               *)

\* C13: formatting is idempotent.  Formatting the output of format again with
\* the same settings yields the same text, byte for byte, for every
\* syntactically valid input and every settings value, include_closing_tag
\* enabled included.
C13_FormatIsIdempotent ==
    Len(program_output) = 2 => program_output[2] = program_output[1]

-----------------------------------------------------------------------------
(* Properties of the services.                                             *)

Spawned(id) == tasks[id].pc # "unspawned"

Finished(id) == tasks[id].pc = "finished"

\* The source can be loaded, parsed, formatted and written.
Formattable(id) ==
    /\ ~manager[id].load_error
    /\ ~manager[id].write_error
    /\ ~analysis[id].parse_error

\* C8: in FormatterService a source whose parse reports an error is skipped:
\* its task never reaches the format step nor the write step, its file keeps
\* its original content, and the task returns Ok.  The tasks of the other
\* sources are never held back: each can take its next step until it has
\* finished, and a formattable source whose task has finished has its
\* formatted text written.  When run returns an error, it is the SourceError
\* of a source that failed to load or to be written, never of one that failed
\* to parse; with no such source run returns Ok.
C8_ParseErrorSkipsTheFile ==
    service = "formatter" =>
        /\ \A id \in Sources :
            analysis[id].parse_error =>
                /\ tasks[id].pc \notin {"format", "write"}
                /\ tasks[id].formatted = NoContent
                /\ manager[id].content = OriginalContent(id)
                /\ Finished(id) => (tasks[id].output = TaskOk(<<>>) /\ id \in feedback)
        /\ \A id \in Sources :
            /\ (Spawned(id) /\ ~Finished(id)) => ENABLED FormatterTask(id)
            /\ (Finished(id) /\ Formattable(id)) =>
                    /\ manager[id].content = format(OriginalContent(id))
                    /\ tasks[id].output = TaskOk(<<>>)
        /\ run_result.state = "err" =>
            /\ ~analysis[run_result.error.source].parse_error
            /\ \/ manager[run_result.error.source].load_error
               \/ manager[run_result.error.source].write_error
        /\ run_result.state = "ok" => run_result.count = Len(source_ids)

C8_Witness ==
    /\ service = "formatter"
    /\ handles = <<1, 2>>
    /\ analysis[1].parse_error
    /\ tasks[1].output = TaskOk(<<>>)
    /\ manager[1].content = OriginalContent(1)
    /\ Formattable(2)
    /\ manager[2].content = format(OriginalContent(2))
    /\ run_result = RunOk(2, <<>>)

\* The positions of `issues` that hold an issue of the given origin.
IssuesFrom(issues, origin) == {i \in 1..Len(issues) : issues[i].origin = origin}

Holds(issues, issue) == \E i \in 1..Len(issues) : issues[i] = issue

RECURSIVE TotalIssues(_)
\* The number of issues the tasks of `ids` returned.
TotalIssues(ids) ==
    IF ids = <<>> THEN 0
    ELSE Len(tasks[Head(ids)].output.issues) + TotalIssues(Tail(ids))

\* C9: in LintService the issues a task returns hold every issue of the
\* linter and every issue of the semantics of its source, plus exactly one
\* issue converted from the parse error when the source has one and none when
\* it has not, and nothing else.  The LintResult run returns holds the issues
\* of every linted source and no other.
C9_IssuesOfEveryLintedFile ==
    service = "linter" =>
        /\ \A id \in Sources :
            tasks[id].output.state = "ok" =>
                LET issues == tasks[id].output.issues IN
                /\ \A n \in 1..analysis[id].linter_issues :
                        Holds(issues, Issue(id, "linter", n))
                /\ \A n \in 1..analysis[id].semantic_issues :
                        Holds(issues, Issue(id, "semantics", n))
                /\ Cardinality(IssuesFrom(issues, "parse_error"))
                        = (IF analysis[id].parse_error THEN 1 ELSE 0)
                /\ analysis[id].parse_error => Holds(issues, issue_from_parse_error(id))
                /\ Len(issues) = analysis[id].linter_issues + analysis[id].semantic_issues
                                    + Cardinality(IssuesFrom(issues, "parse_error"))
        /\ run_result.state = "ok" =>
            /\ \A i \in 1..Len(source_ids) :
                /\ tasks[source_ids[i]].output.state = "ok"
                /\ \A j \in 1..Len(tasks[source_ids[i]].output.issues) :
                        Holds(run_result.issues, tasks[source_ids[i]].output.issues[j])
            /\ Len(run_result.issues) = TotalIssues(source_ids)

C9_Witness ==
    /\ service = "linter"
    /\ source_ids = <<1, 2>>
    /\ analysis[1] = [parse_error |-> TRUE, linter_issues |-> MaxIssues,
                      semantic_issues |-> MaxIssues]
    /\ ~analysis[2].parse_error
    /\ analysis[2].linter_issues = MaxIssues
    /\ run_result.state = "ok"
    /\ Holds(run_result.issues, issue_from_parse_error(1))
    /\ Cardinality(IssuesFrom(run_result.issues, "parse_error")) = 1
    /\ Len(run_result.issues) = 3 * MaxIssues + 1

\* The issues the task of a source returns, from what the source yields.
ExpectedIssues(id) ==
    [n \in 1..(analysis[id].linter_issues + analysis[id].semantic_issues
                + (IF analysis[id].parse_error THEN 1 ELSE 0)) |->
        IF n <= analysis[id].linter_issues THEN Issue(id, "linter", n)
        ELSE IF n <= analysis[id].linter_issues + analysis[id].semantic_issues
        THEN Issue(id, "semantics", n - analysis[id].linter_issues)
        ELSE Issue(id, "parse_error", 1)]

\* What the task of a source returns, from the source alone.
ExpectedOutput(id) ==
    IF manager[id].load_error THEN TaskErr(SourceError(id, "load"))
    ELSE IF service = "linter" THEN TaskOk(ExpectedIssues(id))
    ELSE IF analysis[id].parse_error THEN TaskOk(<<>>)
    ELSE IF manager[id].write_error THEN TaskErr(SourceError(id, "write"))
    ELSE TaskOk(<<>>)

\* What the file of a source holds once its task has finished.
ExpectedContent(id) ==
    IF service = "formatter" /\ Formattable(id)
    THEN format(OriginalContent(id))
    ELSE OriginalContent(id)

RECURSIVE ExpectedRun(_, _, _)
\* What run returns over the sources `ids`, from the sources alone.
ExpectedRun(ids, count, issues) ==
    IF ids = <<>> THEN RunOk(IF service = "formatter" THEN count ELSE 0, issues)
    ELSE IF ExpectedOutput(Head(ids)).state = "err"
    THEN RunErr(ExpectedOutput(Head(ids)).error)
    ELSE ExpectedRun(Tail(ids), count + 1, issues \o ExpectedOutput(Head(ids)).issues)

\* Whatever the interleaving, what has been decided is what the sources decide.
OutcomeDecidedBySources ==
    service # "none" =>
        /\ run_result.state \in {"ok", "err"} => run_result = ExpectedRun(source_ids, 0, <<>>)
        /\ \A id \in Sources :
            /\ Finished(id) =>
                /\ tasks[id].output = ExpectedOutput(id)
                /\ manager[id].content = ExpectedContent(id)
            /\ ~Finished(id) => manager[id].content = OriginalContent(id)

\* A step of the task of a source touches the task and the file of that
\* source, the progress counters and the log, and nothing else.
TasksShareOnlyProgress ==
    \A id \in Sources :
        (Spawned(id) /\ tasks'[id] # tasks[id]) =>
            /\ \A other \in Sources \ {id} :
                    tasks'[other] = tasks[other] /\ manager'[other] = manager[other]
            /\ feedback' \subseteq feedback \cup {id}
            /\ UNCHANGED <<source_ids, handles, collector, run_result, analysis, settings>>

-----------------------------------------------------------------------------
(* Properties of the assignment layout.                                    *)

\* A call of is_lone_short_argument has returned.
ArgumentReturned == argument_call # NoCall /\ ~argument_call.pending

\* The call was made on a direct variable or a local identifier.
NamedArgument == argument_call.argument_value.k \in NamedVariants

\* C19 as stated: for a direct variable or local identifier argument,
\* is_lone_short_argument returns true exactly when the length of the name
\* is strictly below a quarter of print_width.
C19_ShortBelowAQuarter ==
    (ArgumentReturned /\ NamedArgument)
        => (argument_short
                <=> 4 * argument_call.argument_value.name < argument_call.settings.print_width)

\* C19, amended: for a comment-free direct variable or local identifier
\* argument, is_lone_short_argument returns true exactly when the length of
\* the name is at most a quarter of print_width rounded up, that is, when it
\* is below a quarter of print_width plus one.
C19_ShortUpToAQuarterRoundedUp ==
    (ArgumentReturned /\ NamedArgument /\ argument_call.argument_value.comment = "none")
        => (argument_short
                <=> 4 * argument_call.argument_value.name
                        < argument_call.settings.print_width + 4)

\* With print_width 120 a direct variable with a name of 30 characters was
\* found short.
C19_Witness ==
    /\ ArgumentReturned
    /\ argument_call.settings.print_width = 120
    /\ argument_call.argument_value = Leaf("Variable::Direct", 30, "none")
    /\ argument_short

\* A call of choose_layout has returned.
LayoutReturned == layout_call # NoCall /\ ~layout_call.pending

\* What the call was made on: the node, the nodes above it, the right-hand side.
NodeIsAssignment == layout_call.node.kind = "AssignmentOperation"
ParentIsAssignment ==
    layout_call.ancestors[Len(layout_call.ancestors)] = "AssignmentOperation"
GrandparentIsStatement ==
    /\ Len(layout_call.ancestors) > 1
    /\ layout_call.ancestors[Len(layout_call.ancestors) - 1] = "ExpressionStatement"
RhsIsAssignment == layout_call.node.rhs.k = "AssignmentOperation"
RhsIsArrowChain ==
    /\ layout_call.node.rhs.k = "ArrowFunction"
    /\ layout_call.node.rhs.kids[1].k = "ArrowFunction"

\* C20: choose_layout returns Chain exactly when node and parent are
\* assignment operations and the right-hand side is an assignment; it returns
\* ChainTail or ChainTailArrowChain exactly when node and parent are
\* assignment operations, the right-hand side is no assignment and the
\* grandparent is no expression statement, ChainTailArrowChain exactly for an
\* arrow function whose body is an arrow function; and an assignment on the
\* right-hand side that does not give Chain gives BreakAfterOperator.
C20_ChainLayouts ==
    LayoutReturned =>
        /\ layout = "Chain"
                <=> (NodeIsAssignment /\ ParentIsAssignment /\ RhsIsAssignment)
        /\ layout \in {"ChainTail", "ChainTailArrowChain"}
                <=> (/\ NodeIsAssignment /\ ParentIsAssignment
                     /\ ~RhsIsAssignment /\ ~GrandparentIsStatement)
        /\ layout \in {"ChainTail", "ChainTailArrowChain"}
                => (layout = "ChainTailArrowChain" <=> RhsIsArrowChain)
        /\ (RhsIsAssignment /\ layout # "Chain") => layout = "BreakAfterOperator"

\* An assignment of an arrow function returning an arrow function, inside an
\* assignment that is itself inside an assignment, got ChainTailArrowChain.
C20_Witness ==
    /\ LayoutReturned
    /\ layout_call.ancestors = <<"AssignmentOperation", "AssignmentOperation">>
    /\ NodeIsAssignment
    /\ RhsIsArrowChain
    /\ layout = "ChainTailArrowChain"

\* What a chain of calls and member accesses is rooted at.
RECURSIVE ChainRoot(_)
ChainRoot(e) ==
    IF e.k \in CallVariants \cup AccessVariants THEN ChainRoot(e.kids[1]) ELSE e

\* A comment-free argument whose name is at most a quarter of print_width
\* rounded up.
ShortArgument(argument, print_width) ==
    /\ argument.comment = "none"
    /\ argument.k \in NamedVariants
    /\ 4 * argument.name < print_width + 4

\* Every call of the chain has no argument or one short comment-free argument.
RECURSIVE EveryCallIsShort(_, _)
EveryCallIsShort(e, print_width) ==
    IF e.k \in CallVariants
    THEN /\ \/ e.arguments = <<>>
            \/ Len(e.arguments) = 1 /\ ShortArgument(e.arguments[1], print_width)
         /\ EveryCallIsShort(e.kids[1], print_width)
    ELSE IF e.k \in AccessVariants
    THEN EveryCallIsShort(e.kids[1], print_width)
    ELSE TRUE

\* The right-hand side of the call is a poorly breakable call or member chain.
RhsIsPoorlyBreakableChain ==
    LET rhs == layout_call.node.rhs IN
    /\ rhs.k \in CallVariants \cup AccessVariants
    /\ ChainRoot(rhs).k \in IdentifierVariants \cup VariableVariants
                                \cup {"Static", "Self_", "Parent"}
    /\ EveryCallIsShort(rhs, layout_call.settings.print_width)

\* C18 as stated: on a poorly breakable chain choose_layout returns
\* BreakAfterOperator.
C18_ChainBreaksAfterOperator ==
    (LayoutReturned /\ RhsIsPoorlyBreakableChain) => layout = "BreakAfterOperator"

\* The rules of choose_layout that come before the chain is looked at: chain
\* formatting, a comment on a line of its own before the right-hand side, a
\* complex destructuring pattern on the left, a property-like node with a
\* short key.
ChainFormatting == NodeIsAssignment /\ ParentIsAssignment /\ ~GrandparentIsStatement
CommentBeforeRhs == layout_call.node.rhs.comment = "leading own line"
ComplexDestructuring ==
    /\ NodeIsAssignment
    /\ layout_call.node.lhs.k \in {"Array", "List", "LegacyArray"}
    /\ Len(layout_call.node.lhs.kids) > 2
    /\ \E i \in 1..Len(layout_call.node.lhs.kids) :
            layout_call.node.lhs.kids[i].k = "ArrayElement::KeyValue"
ShortKey ==
    LET node == layout_call.node
        limit == layout_call.settings.tab_width + 3
    IN  \/ node.kind \in NamedItems /\ node.name < limit
        \/ /\ node.kind = "KeyValueArrayElement"
           /\ node.key.k \in {"Variable::Direct", "Identifier::Local", "Literal::String"}
           /\ node.key.name < limit

\* C18, amended: on a poorly breakable chain choose_layout returns
\* BreakAfterOperator and never Fluid, unless chain formatting applies (then
\* ChainTail) or, with no comment on a line of its own before the chain, the
\* node is a complex destructuring (then BreakLhs) or a property-like node
\* with a short key (then NeverBreakAfterOperator when the left-hand side
\* cannot break, Fluid when it can).
C18_ChainBreaksAfterOperatorUnlessAnEarlierRule ==
    (LayoutReturned /\ RhsIsPoorlyBreakableChain) =>
        layout = IF ChainFormatting THEN "ChainTail"
                 ELSE IF CommentBeforeRhs THEN "BreakAfterOperator"
                 ELSE IF ComplexDestructuring THEN "BreakLhs"
                 ELSE IF ShortKey
                 THEN IF layout_call.lhs.can_break THEN "Fluid" ELSE "NeverBreakAfterOperator"
                 ELSE "BreakAfterOperator"

\* A method call with one short argument, assigned to a variable in an
\* expression statement, got BreakAfterOperator.
C18_Witness ==
    /\ LayoutReturned
    /\ RhsIsPoorlyBreakableChain
    /\ layout_call.node.rhs =
            Call("Call::Method", DirectVariable(1), <<DirectVariable(1)>>)
    /\ layout_call.node.lhs = DirectVariable(1)
    /\ layout_call.ancestors = <<"ExpressionStatement">>
    /\ layout = "BreakAfterOperator"

-----------------------------------------------------------------------------
(* Properties of print_statement_sequence and of the scripting mode.       *)

\* The source text and the statements of the c-th format call.
SourceOf(c) == IF c = 1 THEN program_source ELSE program_output[c - 1]
StatementsOf(c) == parse_program(SourceOf(c)).statements

\* The indexes of the statements that are no Noop, in order.
RECURSIVE NonNoop(_, _)
NonNoop(stmts, i) ==
    IF i > Len(stmts) THEN <<>>
    ELSE (IF stmts[i].kind = "Noop" THEN <<>> ELSE <<i>>) \o NonNoop(stmts, i + 1)

\* Everything the iterations pushed, in order.
RECURSIVE PushedText(_, _)
PushedText(pushed, j) ==
    IF j > Len(pushed) THEN <<>>
    ELSE pushed[j].text \o pushed[j].hardlines \o PushedText(pushed, j + 1)

\* Statement i lies in a closing-tag region: the last tag up to and including
\* it is a closing tag.
InClosingTagRegion(stmts, i) ==
    \E k \in 1..i :
        /\ stmts[k].kind = "ClosingTag"
        /\ \A l \in (k + 1)..i : stmts[l].kind # "OpeningTag"

\* After the offset `end` only spaces and statement terminators are left on
\* the line, and the line after it holds nothing but spaces.
NextLineIsEmpty(text, end) ==
    \E a \in end..(Len(text) - 1) :
        /\ \A k \in end..(a - 1) : text[k + 1] \in {" ", ";"}
        /\ text[a + 1] = "\n"
        /\ \E b \in (a + 1)..(Len(text) - 1) :
                /\ \A k \in (a + 1)..(b - 1) : text[k + 1] = " "
                /\ text[b + 1] = "\n"

C25_NewlinesOffBetweenTheTags ==
    \A c \in 1..Len(program_formatter) :
        LET f == program_formatter[c]
            stmts == StatementsOf(c)
        IN  \A j \in 1..Len(f.pushed) :
                LET i == f.pushed[j].index IN
                /\ InClosingTagRegion(stmts, i) => f.pushed[j].hardlines = <<>>
                /\ (stmts[i].kind = "OpeningTag" /\ j < Len(f.pushed))
                        => f.pushed[j].hardlines # <<>>
                /\ ((\A k \in 1..i : stmts[k].kind # "ClosingTag") /\ j < Len(f.pushed))
                        => f.pushed[j].hardlines # <<>>

\* A closing tag, inline content and a second opening tag followed by a
\* statement: no hardline after the closing tag and the inline content, one
\* after the second opening tag.
C25_Witness ==
    \E c \in 1..Len(program_formatter) :
        LET f == program_formatter[c]
            stmts == StatementsOf(c)
        IN  \E j \in 1..(Len(f.pushed) - 3) :
                /\ stmts[f.pushed[j].index].kind = "ClosingTag"
                /\ f.pushed[j].hardlines = <<>>
                /\ stmts[f.pushed[j + 1].index].kind = "Inline"
                /\ f.pushed[j + 1].hardlines = <<>>
                /\ stmts[f.pushed[j + 2].index].kind = "OpeningTag"
                /\ f.pushed[j + 2].hardlines = <<"\n">>

\* The closing tag that ends at `end` is followed by white space only, up to
\* the end of the source, and the closing tag is not to be included.
ClosingTagIsDropped(c, end) ==
    /\ ~program_settings.include_closing_tag
    /\ \A k \in end..(Len(SourceOf(c)) - 1) : SourceOf(c)[k + 1] \in {" ", "\n"}

\* The scripting mode before the j-th statement that was formatted.
ModeBefore(f, j) == IF j = 1 THEN FALSE ELSE f.pushed[j - 1].scripting_mode

\* The scripting mode after the last statement.
ModeAtTheEnd(f) ==
    IF f.pushed = <<>> THEN FALSE ELSE f.pushed[Len(f.pushed)].scripting_mode

\* C26: an opening tag sets scripting_mode; inline content and
\* __halt_compiler clear it; a closing tag clears it and is printed, except
\* that a closing tag followed by white space only, when the closing tag is
\* not to be included, prints nothing and leaves the mode set; other
\* statements leave it as it is.  Program::format appends a hardline exactly
\* when the mode is set after the last statement, and an empty line, `?>` and
\* a hardline after it exactly when include_closing_tag is enabled too.
C26_ScriptingModeFollowsTheTags ==
    \A c \in 1..Len(program_formatter) :
        LET f == program_formatter[c]
            stmts == StatementsOf(c)
        IN  /\ f.scripting_mode = ModeAtTheEnd(f)
            /\ \A j \in 1..Len(f.pushed) :
                    LET statement == stmts[f.pushed[j].index] IN
                    CASE statement.kind = "OpeningTag" -> f.pushed[j].scripting_mode
                      [] statement.kind \in {"Inline", "HaltCompiler"} ->
                            ~f.pushed[j].scripting_mode
                      [] statement.kind = "ClosingTag" ->
                            IF ClosingTagIsDropped(c, statement.end)
                            THEN f.pushed[j].scripting_mode /\ f.pushed[j].text = <<>>
                            ELSE ~f.pushed[j].scripting_mode /\ f.pushed[j].text = <<"?>">>
                      [] OTHER -> f.pushed[j].scripting_mode = ModeBefore(f, j)
            /\ program_output[c] =
                    f.parts
                        \o (IF ModeAtTheEnd(f) THEN <<"\n">> ELSE <<>>)
                        \o (IF ModeAtTheEnd(f) /\ program_settings.include_closing_tag
                            THEN <<"\n", "?>", "\n">> ELSE <<>>)

\* A closing tag at the end of the source, not to be included, was printed as
\* nothing and left the mode set, and the text ends with one hardline.
C26_Witness ==
    \E c \in 1..Len(program_formatter) :
        LET f == program_formatter[c]
            stmts == StatementsOf(c)
        IN  /\ f.pushed # <<>>
            /\ stmts[f.pushed[Len(f.pushed)].index].kind = "ClosingTag"
            /\ ~program_settings.include_closing_tag
            /\ f.pushed[Len(f.pushed)].text = <<>>
            /\ f.scripting_mode
            /\ program_output[c] = f.parts \o <<"\n">>

-----------------------------------------------------------------------------
(* Properties of the climbing loop.                                        *)

\* The loop of the call the state is after, run one iteration at a time for
\* at most one iteration more than the stream has tokens.
ClimbingRun ==
    LET left == parse_lhs_expression(tokens, 1) IN
    climbing_run(tokens, left.expr, left.pos, precedence, Len(tokens) + 1)

\* The cursor before iteration i of a run that was entered at `entry`.
CursorBefore(run, entry, i) == IF i = 1 THEN entry ELSE run.cursors[i - 1]

\* C22: parse_expression_with_precedence terminates on every token stream:
\* the loop is entered past the first token, every iteration after which the
\* loop goes on has moved the cursor forward by at least one token, the cursor
\* never passes the end of the stream by more than one and never moves
\* backward, so the loop returns after at most as many such iterations as the
\* stream has tokens, and it returns what the call returned.
C22_EveryIterationConsumes ==
    (pc = "done" /\ parse_lhs_expression(tokens, 1).ok) =>
        LET entry == parse_lhs_expression(tokens, 1).pos
            run == ClimbingRun
            iterations == Len(run.cursors)
        IN /\ entry > 1
           /\ run.finished
           /\ iterations <= Len(tokens)
           /\ \A i \in 1..iterations :
                /\ run.cursors[i] > CursorBefore(run, entry, i)
                /\ run.cursors[i] <= Len(tokens) + 1
           /\ run.r.pos >= CursorBefore(run, entry, iterations + 1)
           /\ run.r = result

\* A call has returned whose loop made three iterations that went on.
C22_Witness ==
    /\ pc = "done"
    /\ parse_lhs_expression(tokens, 1).ok
    /\ Len(ClimbingRun.cursors) >= 3
    /\ ClimbingRun.finished

------------------------------------------------------------------------------
(* Properties of the progress bars and of the count of the formatter.      *)

\* The bars of FormatterService::process_sources, in the order the task of a
\* file that formats and writes reaches them.
FormatterBars == <<"source_pb", "parse_pb", "format_pb", "write_pb">>

\* The tasks that returned Ok.
TasksOk == {id \in Sources : tasks[id].output.state = "ok"}

\* Every task spawned has returned Ok.
AllTasksSucceeded ==
    /\ run_result # Idle
    /\ all_spawned
    /\ \A i \in 1..Len(handles) : handles[i] \in TasksOk

\* How many tasks called inc(1) on `bar`, each call counted.
Increments(bar) ==
    LET calls == {<<id, i>> \in Sources \X (1..6) :
                    i <= Len(tasks[id].incremented) /\ tasks[id].incremented[i] = bar}
    IN Cardinality(calls)

\* C23: a task of the formatter that returned Ok has incremented the loading,
\* parsing, formatting and writing bars once each, in that order, whether it
\* wrote its file or skipped it on a parse error; a bar counts exactly the
\* inc(1) calls of the tasks, so once every task has returned Ok each of the
\* four bars stands at the number of sources.
C23_EveryBarOncePerTask ==
    service = "formatter" =>
        /\ \A id \in TasksOk : tasks[id].incremented = FormatterBars
        /\ \A i \in 1..4 : progress[FormatterBars[i]] = Increments(FormatterBars[i])
        /\ AllTasksSucceeded =>
                \A i \in 1..4 : /\ progress[FormatterBars[i]] = Len(source_ids)
                                 /\ progress[FormatterBars[i]] = progress.length

\* Two tasks have returned Ok, one of them after a parse error and one after
\* writing its file, and every task spawned has returned Ok.
C23_Witness ==
    /\ service = "formatter"
    /\ AllTasksSucceeded
    /\ \E id \in TasksOk : id \in feedback
    /\ \E id \in TasksOk : id \notin feedback /\ manager[id].content.formatted

\* The user-defined sources: the files that are not external.
UserDefined == {id \in Sources : ~manager[id].external}

\* The files whose task fails with a SourceError: those that cannot be loaded
\* and those that parse but cannot be written.
FailsWithSourceError(id) ==
    \/ manager[id].load_error
    \/ ~analysis[id].parse_error /\ manager[id].write_error

\* The positions, in spawn order, of the tasks that fail with a SourceError.
FailingHandles == {i \in 1..Len(handles) : FailsWithSourceError(handles[i])}

\* The operation the task of `id` fails on.
FailingOperation(id) == IF manager[id].load_error THEN "load" ELSE "write"

\* The files the run has written.
FilesWritten == {id \in Sources : manager[id].content.formatted}

\* C24: once run of the formatter has returned, either no task fails with a
\* SourceError and it returned Ok of the number of user-defined sources, a task
\* having been spawned for each of them and for nothing else, the files skipped
\* on a parse error counted with the files written; or it returned the
\* SourceError of the failing task spawned first, and no count.
C24_CountOfTheSourcesSpawned ==
    (service = "formatter" /\ run_result.state \in {"ok", "err"}) =>
        /\ {handles[i] : i \in 1..Len(handles)} = UserDefined
        /\ Len(handles) = Cardinality(UserDefined)
        /\ IF FailingHandles = {}
           THEN /\ run_result.state = "ok"
                /\ run_result.count = Cardinality(UserDefined)
                /\ run_result.count = Cardinality(FilesWritten)
                                        + Cardinality(feedback \cap UserDefined)
                /\ run_result.error = NoSourceError
           ELSE LET first == CHOOSE i \in FailingHandles :
                                \A j \in FailingHandles : i <= j
                IN /\ run_result.state = "err"
                   /\ run_result.error =
                        SourceError(handles[first], FailingOperation(handles[first]))
                   /\ run_result.count = 0

\* run returned a count greater than the number of files written: a file was
\* skipped on a parse error and another one was written.
C24_Witness ==
    /\ service = "formatter"
    /\ run_result.state = "ok"
    /\ run_result.count = MaxFiles
    /\ FilesWritten # {}
    /\ run_result.count > Cardinality(FilesWritten)

------------------------------------------------------------------------------
(* Properties of the lint command.                                         *)

\* The levels at least Error.
AtLeastError ==
    {Levels[i] : i \in {j \in 1..Len(Levels) : \E e \in 1..j : Levels[e] = "Error"}}

\* The highest level among the issues collected is at least Error.
HighestLevelIsAtLeastError ==
    \E i \in 1..Len(lint_run.issues) :
        /\ lint_run.issues[i].level \in AtLeastError
        /\ \A j \in 1..Len(lint_run.issues) :
                level_ge(lint_run.issues[i].level, lint_run.issues[j].level)

\* C27: the lint command returns 1 when the highest level among all the
\* issues collected is at least Error and 0 when it is not; with
\* --only-fixable it reports the issues that carry a suggestion and without it
\* all of them, and it returns the same exit code either way.
C27_ExitCodeOverAllIssues ==
    execution.pc = "returned" =>
        /\ execution.exit_code = IF HighestLevelIsAtLeastError THEN 1 ELSE 0
        /\ \A flag \in BOOLEAN :
                execute([only_fixable |-> flag], lint_run.issues).exit_code
                    = execution.exit_code
        /\ execution.reported =
                IF command.only_fixable
                THEN SelectSeq(lint_run.issues, LAMBDA issue : issue.fixable)
                ELSE lint_run.issues

\* The command ran with --only-fixable and returned 1 while it reported
\* issues none of which is an error.
C27_Witness ==
    /\ execution.pc = "returned"
    /\ command.only_fixable
    /\ execution.exit_code = 1
    /\ execution.reported # <<>>
    /\ \A i \in 1..Len(execution.reported) : execution.reported[i].level # "Error"

------------------------------------------------------------------------------
(* Properties of the cast operators.                                       *)

\* `name` between parentheses, in the case keyword_case asks for.
InKeywordCase(name) ==
    <<"(">>
    \o (IF cast_settings.keyword_case = "Uppercase" THEN to_uppercase(name)
        ELSE to_lowercase(name))
    \o <<")">>

\* The spelling the settings select for the family of a cast, for the casts
\* that belong to one.
FamilySpelling ==
    CASE cast_operator.kind \in {"Bool", "Boolean"} -> cast_settings.bool_cast
      [] cast_operator.kind \in {"Int", "Integer"} -> cast_settings.int_cast
      [] cast_operator.kind \in {"Float", "Double", "Real"} -> cast_settings.float_cast
      [] cast_operator.kind \in {"String", "Binary"} -> cast_settings.string_cast
      [] OTHER -> "None"

\* C28: with leave_casts_as_is a cast is printed with the type name it has in
\* the source, in the case keyword_case asks for; without it a cast of the
\* bool, int, float or string family is printed with the spelling bool_cast,
\* int_cast, float_cast or string_cast selects, whatever the source spells.
C28_CastsKeepTheirNameOrTakeThePreferredOne ==
    cast_document # <<>> =>
        /\ cast_settings.leave_casts_as_is =>
                cast_document = InKeywordCase(cast_operator.value)
        /\ (~cast_settings.leave_casts_as_is /\ FamilySpelling # "None") =>
                cast_document = InKeywordCase(PreferredName(FamilySpelling))

------------------------------------------------------------------------------
(* Properties of build_kind.                                               *)

RECURSIVE WellFlattened(_)
\* No Union among the members of a Union and no Intersection among the
\* members of an Intersection, in the kind and in every kind within it.
WellFlattened(kind) ==
    \A i \in 1..Len(kind.kinds) :
        /\ kind.kinds[i].k # kind.k
        /\ WellFlattened(kind.kinds[i])

RECURSIVE Operands(_, _)
\* The operands of the union or intersection a hint stands for, from left to
\* right: parentheses are seen through, and the `?` of a nullable hint stands
\* for a leading null in a union.
Operands(type_hint, variant) ==
    CASE type_hint.k = "Parenthesized" -> Operands(type_hint.kids[1], variant)
      [] type_hint.k = variant ->
            Operands(type_hint.kids[1], variant) \o Operands(type_hint.kids[2], variant)
      [] type_hint.k = "Nullable" /\ variant = "Union" ->
            <<Hint("Null", "", <<>>)>> \o Operands(type_hint.kids[1], variant)
      [] OTHER -> <<type_hint>>

RECURSIVE Unparenthesized(_)
\* The hint within the parentheses around it.
Unparenthesized(type_hint) ==
    IF type_hint.k = "Parenthesized" THEN Unparenthesized(type_hint.kids[1]) ELSE type_hint

\* C29: the kind build_kind returns has no Union directly among the members
\* of a Union and no Intersection directly among the members of an
\* Intersection; its members are the kinds of the operands of the hint, seen
\* through parentheses, in their order in the source; and the kind of a
\* nullable hint is a Union that begins with Null.
C29_KindsAreFlattenedInOrder ==
    reflection # NotReflected =>
        LET kind == reflection.kind IN
        /\ WellFlattened(kind)
        /\ kind.k \in {"Union", "Intersection"} =>
                LET operands == Operands(hint, kind.k) IN
                /\ Len(kind.kinds) = Len(operands)
                /\ \A i \in 1..Len(operands) :
                        kind.kinds[i] = build_kind(operands[i], context)
        /\ Unparenthesized(hint).k \in {"Union", "Intersection"} =>
                kind.k = Unparenthesized(hint).k
        /\ Unparenthesized(hint).k = "Nullable" =>
                /\ kind.k = "Union"
                /\ kind.kinds[1] = TypeKind("Null", "", <<>>)

\* A union whose left operand is a parenthesized union was reflected into a
\* Union of three members.
C29_Witness ==
    /\ reflection # NotReflected
    /\ hint.k = "Union"
    /\ hint.kids[1].k = "Parenthesized"
    /\ hint.kids[1].kids[1].k = "Union"
    /\ reflection.kind.k = "Union"
    /\ Len(reflection.kind.kinds) = 3
------------------------------------------------------------------------------
(* Properties of split_lines.                                              *)

\* The length of the line terminator a text begins with: 2 for \r\n, 1 for
\* \n and for \r, 0 when it begins with none.
TerminatorAt(text) ==
    IF text = <<>> THEN 0
    ELSE IF Len(text) >= 2 /\ text[1] = "\r" /\ text[2] = "\n" THEN 2
    ELSE IF text[1] \in {"\n", "\r"} THEN 1
    ELSE 0

RECURSIVE TerminatedLines(_, _)
\* The lines of a text and the terminator of each, `line` being the bytes of
\* the current line read so far: a line ends at \n, at \r and at \r\n taken
\* as one terminator, and a text that ends in a terminator has no line after
\* it.
TerminatedLines(text, line) ==
    IF text = <<>>
    THEN IF line = <<>> THEN <<>> ELSE <<[line |-> line, terminator |-> <<>>]>>
    ELSE IF TerminatorAt(text) = 0
    THEN TerminatedLines(Tail(text), Append(line, Head(text)))
    ELSE <<[line |-> line, terminator |-> SubSeq(text, 1, TerminatorAt(text))]>>
         \o TerminatedLines(SubSeq(text, TerminatorAt(text) + 1, Len(text)), <<>>)

RECURSIVE Restored(_)
\* The lines, each followed by its terminator.
Restored(terminated) ==
    IF terminated = <<>> THEN <<>>
    ELSE Head(terminated).line \o Head(terminated).terminator \o Restored(Tail(terminated))

\* C30: split_lines returns the lines of the text, a line ending at \n, at \r
\* and at \r\n taken as one terminator: no line holds a \r or a \n, the lines
\* followed by their terminators give the text back, and a text that ends in a
\* terminator gives no empty last line.
C30_LinesWithoutTerminators ==
    split.pc = "returned" =>
        LET terminated == TerminatedLines(slice, <<>>) IN
        /\ \A i \in 1..Len(split.lines) :
                \A j \in 1..Len(split.lines[i]) : split.lines[i][j] \notin {"\n", "\r"}
        /\ Restored(terminated) = slice
        /\ Len(split.lines) = Len(terminated)
        /\ \A i \in 1..Len(terminated) : split.lines[i] = terminated[i].line
        /\ (slice # <<>> /\ slice[Len(slice)] \in {"\n", "\r"}) =>
                /\ \A i \in 1..Len(terminated) : terminated[i].terminator # <<>>
                /\ split.lines[Len(split.lines)] = terminated[Len(terminated)].line

====
